---- MODULE Spec2Model ----
(***************************************************************************)
(* Model of the o9 action-button generator's code-generation routes:       *)
(* POST / (generate), GET /:id, POST /:id/regenerate and GET /:id/download *)
(* of routes/codeGeneration.js, in each of the variants of that file the   *)
(* repository holds, over the document store and the completion service.   *)
(*                                                                         *)
(* Strings the code takes apart (projectName, version, file names) are     *)
(* sequences of one-character strings; strings it only passes along are    *)
(* TLA+ strings.  A missing or empty request field is the empty value.     *)
(***************************************************************************)
EXTENDS Integers, Sequences, FiniteSets, TLC

VARIABLES
  variant,        \* which version of routes/codeGeneration.js is deployed
  fieldBindings,  \* containers.fieldBindings: set of binding documents
  knowledgeBase,  \* containers.knowledgeBase: example metadata, newest first
  blobs,          \* the blob container: the paths that hold a blob
  boot,           \* the process: entry script, environment, how far startup got
  generatedCode,  \* containers.generatedCode: set of generated-code documents
  nextId,         \* source of fresh identifiers (uuidv4)
  clock,          \* wall clock read by new Date()
  started,        \* number of requests received so far
  regenerated,    \* per document id: regenerate requests answered 200 so far
  pc,             \* per request slot: the await the handler is suspended at
  req,            \* per request slot: route, params and body of the request
  loc,            \* per request slot: the handler's local variables
  resp,           \* per request slot: the HTTP responses sent
  fnOp,           \* pure-function harness: which function was applied
  fnArg,          \* pure-function harness: its input
  fnRes           \* pure-function harness: its result

vars == <<variant, fieldBindings, knowledgeBase, blobs, generatedCode, nextId, clock,
          started, pc, req, loc, resp, fnOp, fnArg, fnRes, boot, regenerated>>

svcVars == <<variant, fieldBindings, knowledgeBase, blobs, generatedCode, nextId, clock,
             started, pc, req, loc, resp, boot, regenerated>>

reqVars == <<variant, fieldBindings, knowledgeBase, blobs, generatedCode, nextId, clock,
             started, pc, req, loc, resp, regenerated>>

fnVars == <<fnOp, fnArg, fnRes>>

----------------------------------------------------------------------------
(* Bounds *)

MaxRequests == 2     \* requests received in one run
MaxDigits == 2       \* digits per version component (pure-function harness)
MaxNameLen == 3      \* characters per project name (pure-function harness)

Procs == {"r1", "r2"}   \* request slots: requests in flight at the same time
SlotBefore(q, p) == q = "r1" /\ p = "r2"

----------------------------------------------------------------------------
(* Characters and JavaScript string functions *)

UpperChars == <<"A","B","C","D","E","F","G","H","I","J","K","L","M",
                "N","O","P","Q","R","S","T","U","V","W","X","Y","Z">>
LowerChars == <<"a","b","c","d","e","f","g","h","i","j","k","l","m",
                "n","o","p","q","r","s","t","u","v","w","x","y","z">>
DigitChars == <<"0","1","2","3","4","5","6","7","8","9">>

Range(s) == {s[i] : i \in DOMAIN s}

IsUpper(c) == c \in Range(UpperChars)
IsLower(c) == c \in Range(LowerChars)
IsDigit(c) == c \in Range(DigitChars)

\* String.prototype.toLowerCase, one character
ToLowerChar(c) ==
  IF IsUpper(c) THEN LowerChars[CHOOSE i \in DOMAIN UpperChars : UpperChars[i] = c]
  ELSE c

\* String.prototype.toLowerCase
ToLowerCase(s) == [i \in DOMAIN s |-> ToLowerChar(s[i])]

\* s.replace(/[^a-z0-9]/g, '')
StripNotLowerAlnum(s) == SelectSeq(s, LAMBDA c : IsLower(c) \/ IsDigit(c))

\* s.replace(/[^a-zA-Z0-9]/g, '')
StripNotAlnum(s) == SelectSeq(s, LAMBDA c : IsLower(c) \/ IsUpper(c) \/ IsDigit(c))

\* s.replace(/[^a-zA-Z0-9_-]/g, '')
StripNotAlnumDashUnderscore(s) ==
  SelectSeq(s, LAMBDA c : IsLower(c) \/ IsUpper(c) \/ IsDigit(c) \/ c \in {"_", "-"})

\* s.slice(0, n)
Slice0(s, n) == IF Len(s) <= n THEN s ELSE SubSeq(s, 1, n)

\* the value of a property the object does not have, as a string value
Undefined == <<"undefined">>

DigitValue(c) == (CHOOSE i \in DOMAIN DigitChars : DigitChars[i] = c) - 1

RECURSIVE DigitsValue(_)
DigitsValue(s) ==
  IF s = <<>> THEN 0
  ELSE 10 * DigitsValue(SubSeq(s, 1, Len(s) - 1)) + DigitValue(s[Len(s)])

\* a value that is not a number (NaN)
NaN == -1

\* the longest prefix of s made of digits
RECURSIVE DigitPrefix(_)
DigitPrefix(s) ==
  IF s = <<>> \/ ~IsDigit(s[1]) THEN <<>>
  ELSE <<s[1]>> \o DigitPrefix(Tail(s))

\* parseInt(s) of a string: the leading digits, NaN when there are none
ParseInt(s) == IF DigitPrefix(s) = <<>> THEN NaN ELSE DigitsValue(DigitPrefix(s))

\* Number(s) of a string: the whole string must be digits ("" is 0)
NumberOf(s) == IF \A i \in DOMAIN s : IsDigit(s[i]) THEN DigitsValue(s) ELSE NaN

\* `${n}` of a number
RECURSIVE NatToString(_)
NatToString(n) ==
  IF n < 10 THEN <<DigitChars[n + 1]>>
  ELSE NatToString(n \div 10) \o <<DigitChars[(n % 10) + 1]>>

NumToString(n) == IF n = NaN THEN <<"N","a","N">> ELSE NatToString(n)

\* String.prototype.split('.')
RECURSIVE SplitDots(_)
SplitDots(s) ==
  IF \A i \in DOMAIN s : s[i] # "."
  THEN <<s>>
  ELSE LET k == CHOOSE i \in DOMAIN s : s[i] = "." /\ \A j \in 1..(i-1) : s[j] # "."
       IN <<SubSeq(s, 1, k - 1)>> \o SplitDots(SubSeq(s, k + 1, Len(s)))

\* parts[i] of a JavaScript array, `undefined` past its end
PartAt(parts, i) == IF i <= Len(parts) THEN parts[i] ELSE Undefined

\* parts[i] || dflt, where parts[i] is a string
PartOr(parts, i, dflt) ==
  IF i <= Len(parts) /\ parts[i] # <<>> THEN parts[i] ELSE dflt

Dot == <<".">>

----------------------------------------------------------------------------
(* Pure helpers of the routes *)

\* incrementVersion of routes/codeGeneration.js: parts[0] and parts[1] are
\* copied as text, the patch is parsed, incremented and printed
IncrementVersionConcat(version) ==
  LET parts == SplitDots(version)
  IN PartAt(parts, 1) \o Dot \o PartAt(parts, 2) \o Dot \o PartOr(parts, 3, <<"0">>) \o <<"1">>

IncrementVersionMain(version) ==
  LET parts == SplitDots(version)
      p     == ParseInt(PartOr(parts, 3, <<"0">>))
      patch == IF p = NaN THEN NaN ELSE p + 1
  IN PartAt(parts, 1) \o Dot \o PartAt(parts, 2) \o Dot \o NumToString(patch)

\* incrementVersion of the drop-in replacement: every component goes through Number
IncrementVersionDropIn(version) ==
  LET parts == SplitDots(version)
      major == NumberOf(PartOr(parts, 1, <<"1">>))
      minor == NumberOf(PartOr(parts, 2, <<"0">>))
      p     == NumberOf(PartOr(parts, 3, <<"0">>))
      patch == IF p = NaN THEN NaN ELSE p + 1
  IN NumToString(major) \o Dot \o NumToString(minor) \o Dot \o NumToString(patch)

IncrementVersion(v, version) ==
  IF v = "dropin" THEN IncrementVersionDropIn(version) ELSE IncrementVersionMain(version)

\* projectName.toLowerCase().replace(/[^a-z0-9]/g, '')
ProjectIdStripFirst(projectName) == ToLowerCase(StripNotLowerAlnum(projectName))

ProjectIdOf(projectName) == StripNotLowerAlnum(ToLowerCase(projectName))

\* the download route's file name
FileNameMain(projectName) == StripNotAlnum(projectName) \o <<".","j","s">>

MaxFileStem == 50

FileNameDropIn(projectName) ==
  LET safe == Slice0(StripNotAlnumDashUnderscore(projectName), MaxFileStem)
  IN (IF safe # <<>> THEN safe ELSE <<"g","e","n","e","r","a","t","e","d">>) \o <<".","j","s">>

FileName(v, projectName) ==
  IF v = "dropin" THEN FileNameDropIn(projectName) ELSE FileNameMain(projectName)

\* the module name both prompts ask for
ModuleName(projectName) == <<"o","9",".">> \o StripNotAlnum(projectName)

----------------------------------------------------------------------------
(* Data the requests are drawn from *)

Variants == {"main", "dropin", "simple", "third", "minimal"}

\* the versions of the file that also route GET /:id, regenerate and download
FullVariants == {"main", "dropin"}

Modifications == {"m1", "m2"}
ProjectIds == { <<>>, <<"m","y","2">> }

\* request bodies with all four required fields: the binding under its own
\* type, the binding under another type with a name of path characters only,
\* and an id no binding has
ValidBodies ==
  { [projectName |-> <<"M","y","-","2">>, actionButtonType |-> "T1",
     businessLogic |-> <<"BL">>, fieldBindingId |-> "b1"],
    [projectName |-> <<".","/">>, actionButtonType |-> "T2",
     businessLogic |-> <<"BL">>, fieldBindingId |-> "b1"],
    [projectName |-> <<"M","y","-","2">>, actionButtonType |-> "T1",
     businessLogic |-> <<"BL">>, fieldBindingId |-> "b9"] }

\* request bodies with one of the required fields missing or empty, or all of them
InvalidBodies ==
  LET base == [projectName |-> <<"M","y","-","2">>, actionButtonType |-> "T1",
               businessLogic |-> <<"BL">>, fieldBindingId |-> "b1"]
  IN { [base EXCEPT !.projectName = <<>>], [base EXCEPT !.actionButtonType = ""],
       [base EXCEPT !.businessLogic = <<>>], [base EXCEPT !.fieldBindingId = ""],
       [projectName |-> <<>>, actionButtonType |-> "", businessLogic |-> <<>>,
        fieldBindingId |-> ""] }

GenerateBodies == ValidBodies \cup InvalidBodies

\* the binding documents of the fieldBindings container (partition key /actionButtonType)
Binding1 == [id |-> "b1", actionButtonType |-> "T1", fields |-> "F1"]

\* PUT /api/field-bindings/:id: the id of the path and the body `updates`
\* (bodyId is its `id` key); a key the body does not carry is ""
BindingUpdates ==
  { [id |-> "b1", actionButtonType |-> "T1", fields |-> "F2", bodyId |-> ""],
    [id |-> "b1", actionButtonType |-> "T2", fields |-> "F2", bodyId |-> ""],
    [id |-> "b1", actionButtonType |-> "T1", fields |-> "", bodyId |-> "b9"] }

\* DELETE /api/field-bindings/:id?actionButtonType=...
BindingDeletes ==
  { [id |-> "b1", actionButtonType |-> "T1"], [id |-> "b1", actionButtonType |-> ""] }

\* knowledge-base metadata documents, newest upload first
Example(n) ==
  [id |-> n, type |-> "knowledge", actionButtonType |-> "T1",
   fileType |-> "application/javascript",
   fileName |-> <<"e", n>>, description |-> <<"d", n>>, filePath |-> <<"p", n>>]

\* the blobs of the knowledge documents kb
BlobsOf(kb) == {kb[i].filePath : i \in DOMAIN kb}

KnowledgeBases == { <<>>, <<Example(1)>> }

\* what the completion service can answer: a transport or HTTP error, a body
\* without choices, a first choice with empty content, a first choice with text
CompletionOutcomes == {"error", "nochoices", "empty", "ok"}

\* the HTTP status of an upstream error answer
UpstreamStatuses == {429, 500}

NoReq ==
  [op |-> "none", id |-> 0, projectId |-> <<>>, projectName |-> <<>>,
   actionButtonType |-> "", businessLogic |-> <<>>, fieldBindingId |-> "",
   modifications |-> "", fields |-> "", files |-> 0, bodyId |-> ""]

NoArg == [kind |-> "none", v |-> "main", s |-> <<>>, other |-> ""]

NoLoc ==
  [fieldBinding |-> <<>>, examples |-> <<>>, idx |-> 0, exampleCodes |-> <<>>,
   codesDefined |-> FALSE, existingCode |-> <<>>, generatedCode |-> <<>>,
   record |-> <<>>, kb |-> "none", completion |-> "none", threw |-> "none",
   existingBinding |-> <<>>, attempts |-> 0]

\* an HTTP response: status and the body fields the routes send
Response(status) ==
  [status |-> status, codeId |-> 0, generatedCode |-> <<>>, usedExamples |-> -1,
   version |-> Undefined, fileName |-> Undefined, body |-> <<>>]

\* requiredEnvVars of startApplication
RequiredEnvVars ==
  {"COSMOS_ENDPOINT", "COSMOS_KEY", "COSMOS_DATABASE_NAME",
   "AZURE_STORAGE_CONNECTION_STRING", "AZURE_OPENAI_ENDPOINT", "AZURE_OPENAI_API_KEY"}

\* the entry scripts: startup.js and the simplified startup
Entries == {"startup", "simplified"}

\* no regenerate request has been answered yet
NoneRegenerated == [id \in {} |-> 0]

\* the number of regenerate requests on document id answered 200 so far
Regenerated(count, id) == IF id \in DOMAIN count THEN count[id] ELSE 0

\* one more regenerate request on document id has been answered 200
CountRegenerated(count, id) ==
  [i \in DOMAIN count \cup {id} |-> IF i = id THEN Regenerated(count, id) + 1
                                     ELSE count[i]]

\* the process once startup.js has brought the server up
Running ==
  [entry |-> "startup", env |-> RequiredEnvVars, phase |-> "listening",
   azure |-> "ok", exitCode |-> -1]

----------------------------------------------------------------------------
(* Document store operations (Cosmos containers) *)

\* container.item(id, partitionKey).read(): the document of that id in that
\* partition, as a sequence of zero or one documents (no document: `undefined`)
ReadBinding(store, id, pk) ==
  LET m == {b \in store : b.id = id /\ b.actionButtonType = pk}
  IN IF m = {} THEN <<>> ELSE <<CHOOSE b \in m : TRUE>>

\* containers.fieldBindings.item(id, pk).replace(doc): the whole document
ReplaceBinding(store, id, pk, doc) ==
  {b \in store : ~(b.id = id /\ b.actionButtonType = pk)} \cup {doc}

\* containers.fieldBindings.item(id, pk).delete()
DeleteBinding(store, id, pk) ==
  {b \in store : ~(b.id = id /\ b.actionButtonType = pk)}

\* { ...existingBinding, ...updates, updatedAt }: the keys of the body replace
\* those of the stored document (updatedAt is not part of the binding here)
UpdatedBinding(existingBinding, updates) ==
  [existingBinding EXCEPT
     !.id = IF updates.bodyId = "" THEN @ ELSE updates.bodyId,
     !.actionButtonType = IF updates.actionButtonType = "" THEN @
                          ELSE updates.actionButtonType,
     !.fields = IF updates.fields = "" THEN @ ELSE updates.fields]

\* containers.knowledgeBase.item(id, 'knowledge').read()
ReadKnowledge(kb, id) ==
  LET m == SelectSeq(kb, LAMBDA e : e.id = id /\ e.type = "knowledge")
  IN IF m = <<>> THEN <<>> ELSE <<m[1]>>

\* containers.knowledgeBase.items.create(knowledgeItem): the newest document
CreateKnowledge(kb, item) == <<item>> \o kb

\* containers.knowledgeBase.item(id, 'knowledge').delete()
DeleteKnowledge(kb, id) == SelectSeq(kb, LAMBDA e : ~(e.id = id /\ e.type = "knowledge"))

\* SELECT * FROM c WHERE c.id = @id
QueryBindingById(store, id, pk) == {b \in store : b.id = id}

\* SELECT * FROM c WHERE c.id = @id AND c.actionButtonType = @pk
QueryBindingByIdAndType(store, id, pk) ==
  {b \in store : b.id = id /\ b.actionButtonType = pk}

\* the fallback query without its WHERE clause: every binding matches
FallbackQueryAll(v, store, id, pk) == store

FallbackQuery(v, store, id, pk) ==
  IF v = "dropin" THEN QueryBindingByIdAndType(store, id, pk)
  ELSE QueryBindingById(store, id, pk)

\* the knowledge query: type, actionButtonType and fileType match, newest first
KnowledgeQuery(kb, abt) ==
  SelectSeq(kb, LAMBDA e : e.type = "knowledge" /\ e.actionButtonType = abt
                           /\ e.fileType = "application/javascript")

\* examples.slice(0, 3)
TopExamples == 3
SliceTop(examples) == Slice0(examples, TopExamples)

\* a read that ignores the partition key
ReadCodeAnyPartition(store, id, projectId) ==
  LET m == {r \in store : r.id = id}
  IN IF m = {} THEN <<>> ELSE <<CHOOSE r \in m : TRUE>>

\* containers.generatedCode.item(id, projectId).read()
ReadCode(store, id, projectId) ==
  LET m == {r \in store : r.id = id /\ r.projectId = projectId}
  IN IF m = {} THEN <<>> ELSE <<CHOOSE r \in m : TRUE>>

\* containers.generatedCode.items.create(doc)
CreateCode(store, doc) == store \cup {doc}

\* containers.generatedCode.item(id, projectId).replace(doc), applied server-side
\* to the version field instead of replacing the document
ReplaceCodeMerging(store, id, projectId, doc) ==
  {r \in store : ~(r.id = id /\ r.projectId = projectId)}
    \cup {[r EXCEPT !.generatedCode = doc.generatedCode,
                    !.version = IncrementVersionMain(r.version)] :
          r \in {x \in store : x.id = id /\ x.projectId = projectId}}

\* a replace that is refused when the stored document already carries the
\* version of doc, as a conditional write would refuse it
ReplaceCodeIfNewer(store, id, projectId, doc) ==
  IF \E r \in store : r.id = id /\ r.projectId = projectId /\ r.version = doc.version
  THEN store
  ELSE {r \in store : ~(r.id = id /\ r.projectId = projectId)} \cup {doc}

\* containers.generatedCode.item(id, projectId).replace(doc): the whole document
ReplaceCode(store, id, projectId, doc) ==
  {r \in store : ~(r.id = id /\ r.projectId = projectId)} \cup {doc}

----------------------------------------------------------------------------
(* Prompt assembly, the completion client, and the documents written *)

\* the user prompt of generateActionButtonCode, as the values it interpolates
UserPrompt(projectName, actionButtonType, businessLogic, fieldBinding, examples) ==
  [projectName |-> projectName, actionButtonType |-> actionButtonType,
   businessLogic |-> businessLogic, fields |-> fieldBinding.fields,
   examples |-> [i \in DOMAIN examples |->
                   [fileName |-> examples[i].fileName, content |-> examples[i].content]],
   moduleName |-> ModuleName(projectName)]

\* the user prompt of the drop-in regenerate route: the stored logic and the
\* modifications go in separately
RegeneratePromptDropIn(existingCode, modifications) ==
  [projectName |-> existingCode.projectName, actionButtonType |-> "",
   businessLogic |-> existingCode.businessLogic \o <<"MODIFICATIONS:", modifications>>,
   fields |-> existingCode.fieldBinding[1].fields, examples |-> <<>>,
   moduleName |-> ModuleName(existingCode.projectName)]

\* the modification text put in front of the stored logic
ModifiedBusinessLogicPrepend(businessLogic, modifications) ==
  <<"ADDITIONAL MODIFICATIONS:", modifications>> \o businessLogic

\* `${existingCode.businessLogic}\n\nADDITIONAL MODIFICATIONS:\n${modifications}`
ModifiedBusinessLogic(businessLogic, modifications) ==
  businessLogic \o <<"ADDITIONAL MODIFICATIONS:", modifications>>

\* the regenerate prompt built from the binding the store holds now for the
\* record's fieldBindingId, when it holds one
RegeneratePromptFromStore(v, existingCode, modifications) ==
  LET now == ReadBinding(fieldBindings, existingCode.fieldBindingId,
                         existingCode.actionButtonType)
      fb  == IF now = <<>> THEN existingCode.fieldBinding ELSE now
  IN IF v = "dropin"
     THEN RegeneratePromptDropIn([existingCode EXCEPT !.fieldBinding = fb], modifications)
     ELSE UserPrompt(existingCode.projectName, existingCode.actionButtonType,
                     ModifiedBusinessLogic(existingCode.businessLogic, modifications),
                     fb[1], <<>>)

\* the prompt of the regenerate route: every value comes from existingCode
RegeneratePrompt(v, existingCode, modifications) ==
  IF v = "dropin"
  THEN RegeneratePromptDropIn(existingCode, modifications)
  ELSE UserPrompt(existingCode.projectName, existingCode.actionButtonType,
                  ModifiedBusinessLogic(existingCode.businessLogic, modifications),
                  existingCode.fieldBinding[1], <<>>)

\* the text the completion service answers a prompt with, when it answers with text
ModelText(prompt) == <<prompt>>

\* what the caller of the completion client gets for an outcome of the HTTP call:
\* threw (and the status the error carries, 0 for none) or the returned text.
\* generateActionButtonCode over AzureOpenAIClient.generateCompletion
GenerateMain(outcome, upstream, prompt) ==
  CASE outcome = "error"     -> [threw |-> TRUE,  status |-> 0, text |-> <<>>]
    [] outcome = "nochoices" -> [threw |-> TRUE,  status |-> 0, text |-> <<>>]
    [] outcome = "empty"     -> [threw |-> FALSE, status |-> 0, text |-> <<>>]
    [] outcome = "ok"        -> [threw |-> FALSE, status |-> 0, text |-> ModelText(prompt)]

\* callAzureChat of the drop-in replacement
CallAzureChat(outcome, upstream, prompt) ==
  CASE outcome = "error"     -> [threw |-> TRUE,  status |-> upstream, text |-> <<>>]
    [] outcome = "nochoices" -> [threw |-> TRUE,  status |-> 0, text |-> <<>>]
    [] outcome = "empty"     -> [threw |-> TRUE,  status |-> 0, text |-> <<>>]
    [] outcome = "ok"        -> [threw |-> FALSE, status |-> 0, text |-> ModelText(prompt)]

\* the simple variant: openai.chat.completions.create and the response checks after it
CompleteSimple(outcome, upstream, prompt) ==
  CASE outcome = "error"     -> [threw |-> TRUE,  status |-> 0, text |-> <<>>]
    [] outcome = "nochoices" -> [threw |-> TRUE,  status |-> 0, text |-> <<>>]
    [] outcome = "empty"     -> [threw |-> TRUE,  status |-> 0, text |-> <<>>]
    [] outcome = "ok"        -> [threw |-> FALSE, status |-> 0, text |-> ModelText(prompt)]

\* new AzureOpenAI({endpoint, apiKey, apiVersion, deployment}) of the simple
\* variant sets no maxRetries: the client sends a request that failed with a
\* connection error, 429 or 5xx again, up to its default of two more times,
\* inside the one call of openai.chat.completions.create.  axios.post and fetch
\* of the other variants send one request
MaxRetries == 2
Retries(v, outcome, attempts) ==
  v = "simple" /\ outcome = "error" /\ attempts < MaxRetries

Generate(v, outcome, upstream, prompt) ==
  CASE v = "dropin" -> CallAzureChat(outcome, upstream, prompt)
    [] v = "simple" -> CompleteSimple(outcome, upstream, prompt)
    [] OTHER        -> GenerateMain(outcome, upstream, prompt)

\* error.status || 500 of the drop-in catch blocks; 500 in the other variants
ServerError == 500
CatchStatus(v, status) == IF v = "dropin" /\ status # 0 THEN status ELSE ServerError

FirstVersion == <<"1",".","0",".","0">>

\* exampleCodes.map(ex => ({fileName, description}))
ExampleRefs(exampleCodes) ==
  [i \in DOMAIN exampleCodes |->
     [fileName |-> exampleCodes[i].fileName, description |-> exampleCodes[i].description]]

\* codeRecord of POST / (main, third and drop-in variants)
CodeRecordFull(id, now, body, fieldBinding, code, exampleCodes) ==
  [id |-> id, projectId |-> ProjectIdOf(body.projectName),
   projectName |-> body.projectName, actionButtonType |-> body.actionButtonType,
   businessLogic |-> body.businessLogic, fieldBindingId |-> body.fieldBindingId,
   fieldBinding |-> <<fieldBinding>>, generatedCode |-> code,
   examples |-> ExampleRefs(exampleCodes), generatedAt |-> now,
   version |-> FirstVersion, status |-> "generated"]

\* codeRecord of the simple variant: no projectId, binding snapshot, examples,
\* version or status
CodeRecordSimple(id, now, body, fieldBinding, code, exampleCodes) ==
  [id |-> id, projectId |-> Undefined,
   projectName |-> body.projectName, actionButtonType |-> body.actionButtonType,
   businessLogic |-> body.businessLogic, fieldBindingId |-> body.fieldBindingId,
   fieldBinding |-> <<>>, generatedCode |-> code,
   examples |-> <<>>, generatedAt |-> now,
   version |-> Undefined, status |-> "undefined"]

CodeRecord(v, id, now, body, fieldBinding, code, exampleCodes) ==
  IF v = "simple" THEN CodeRecordSimple(id, now, body, fieldBinding, code, exampleCodes)
  ELSE CodeRecordFull(id, now, body, fieldBinding, code, exampleCodes)

\* updatedRecord of the regenerate route, built without the spread of existingCode
UpdatedRecordNoSpread(v, existingCode, code, modifications, now) ==
  [existingCode EXCEPT
     !.generatedCode = code,
     !.businessLogic = ModifiedBusinessLogic(existingCode.businessLogic, modifications),
     !.generatedAt = now,
     !.version = IncrementVersion(v, existingCode.version),
     !.status = "regenerated",
     !.fieldBinding = <<>>,
     !.examples = <<>>]

\* updatedRecord of the regenerate route
UpdatedRecord(v, existingCode, code, modifications, now) ==
  [existingCode EXCEPT
     !.generatedCode = code,
     !.businessLogic = ModifiedBusinessLogic(existingCode.businessLogic, modifications),
     !.generatedAt = now,
     !.version = IncrementVersion(v, existingCode.version),
     !.status = "regenerated"]

----------------------------------------------------------------------------
(* The request handlers.  A handler runs from one await to the next in one   *)
(* step; pc names the downstream call it is waiting for, and the action of   *)
(* that name is the call returning or throwing and the code up to the next   *)
(* await or response.                                                        *)

\* issue the downstream call `label` and suspend at it
Goto(p, label, l) ==
  /\ pc' = [pc EXCEPT ![p] = label]
  /\ loc' = [loc EXCEPT ![p] = l]
  /\ resp' = resp

\* send the response r and return
Reply(p, r, l) ==
  /\ pc' = [pc EXCEPT ![p] = "done"]
  /\ loc' = [loc EXCEPT ![p] = l]
  /\ resp' = [resp EXCEPT ![p] = Append(@, r)]

\* the outer catch block answers for an error thrown by the call `label`
Catch(p, status, label, l) == Reply(p, Response(status), [l EXCEPT !.threw = label])

\* a request arrives and takes the first slot that has no request in flight;
\* what the slot's previous request left behind is dropped
ReceiveWithin(p, r, max) ==
  /\ pc[p] \in {"idle", "done"}
  /\ \A q \in Procs : SlotBefore(q, p) => pc[q] \notin {"idle", "done"}
  /\ started < max
  /\ started' = started + 1
  /\ req' = [req EXCEPT ![p] = r]

Receive(p, r) == ReceiveWithin(p, r, MaxRequests)

\* the 404 of a missing binding sent without `return`: the handler goes on
AfterBindingNoReturn(p, found) ==
  IF found = <<>>
  THEN /\ pc' = [pc EXCEPT ![p] = "kb_query"]
       /\ loc' = loc
       /\ resp' = [resp EXCEPT ![p] = Append(@, Response(404))]
  ELSE LET l == [loc[p] EXCEPT !.fieldBinding = found]
       IN IF variant = "simple" THEN Goto(p, "completion", l) ELSE Goto(p, "kb_query", l)

\* if (!fieldBinding) return 404; otherwise on to the examples (or, in the
\* simple variant, straight to the completion call)
AfterBinding(p, found) ==
  IF found = <<>>
  THEN Reply(p, Response(404), loc[p])
  ELSE LET l == [loc[p] EXCEPT !.fieldBinding = found]
       IN IF variant = "simple" THEN Goto(p, "completion", l) ELSE Goto(p, "kb_query", l)

\* the call of generateActionButtonCode after the example block.  In the third
\* variant the exampleCodes it passes is the function-scoped `var` of the catch
\* block, undefined unless the knowledge query threw: examples.length then
\* throws before any completion call
AfterExamples(p, l) ==
  IF variant = "third" /\ ~l.codesDefined
  THEN Catch(p, ServerError, "examples.length", l)
  ELSE Goto(p, "completion", l)

\* the first call or the response of a request that has just arrived
GotoNew(p, label) ==
  /\ pc' = [pc EXCEPT ![p] = label]
  /\ loc' = [loc EXCEPT ![p] = NoLoc]
  /\ resp' = [resp EXCEPT ![p] = <<>>]

ReplyNew(p, r) ==
  /\ pc' = [pc EXCEPT ![p] = "done"]
  /\ loc' = [loc EXCEPT ![p] = NoLoc]
  /\ resp' = [resp EXCEPT ![p] = <<r>>]

\* POST /: destructure the body, validate the four required fields
ReceiveGenerate(p) ==
  \E body \in GenerateBodies :
    /\ Receive(p, [NoReq EXCEPT !.op = "generate",
                                !.projectName = body.projectName,
                                !.actionButtonType = body.actionButtonType,
                                !.businessLogic = body.businessLogic,
                                !.fieldBindingId = body.fieldBindingId])
    /\ IF variant = "minimal"
       THEN ReplyNew(p, Response(200))
       ELSE IF \/ body.projectName = <<>> \/ body.actionButtonType = ""
               \/ body.businessLogic = <<>> \/ body.fieldBindingId = ""
            THEN ReplyNew(p, Response(400))
            ELSE GotoNew(p, "fb_read")
    /\ UNCHANGED <<variant, fieldBindings, knowledgeBase, generatedCode, nextId, clock>>
    /\ UNCHANGED <<fnVars, blobs, boot, regenerated>>

\* containers.fieldBindings.item(fieldBindingId, actionButtonType).read() returns
\* (with the document or with no resource) or throws
FbRead(p) ==
  /\ pc[p] = "fb_read"
  /\ \/ AfterBinding(p, ReadBinding(fieldBindings, req[p].fieldBindingId,
                                    req[p].actionButtonType))
     \/ Goto(p, "fb_query", loc[p])
  /\ UNCHANGED <<variant, fieldBindings, knowledgeBase, generatedCode, nextId, clock,
                 started, req>>
  /\ UNCHANGED <<fnVars, blobs, boot, regenerated>>

\* the fallback query of the catch block returns or throws
FbQuery(p) ==
  /\ pc[p] = "fb_query"
  /\ \/ LET rs == FallbackQuery(variant, fieldBindings, req[p].fieldBindingId,
                                req[p].actionButtonType)
        IN AfterBinding(p, IF rs = {} THEN <<>> ELSE <<CHOOSE b \in rs : TRUE>>)
     \/ Catch(p, ServerError, "fb_query", loc[p])
  /\ UNCHANGED <<variant, fieldBindings, knowledgeBase, generatedCode, nextId, clock,
                 started, req>>
  /\ UNCHANGED <<fnVars, blobs, boot, regenerated>>

\* the knowledge-base query returns or throws
KbQuery(p) ==
  /\ pc[p] = "kb_query"
  /\ \/ LET found == KnowledgeQuery(knowledgeBase, req[p].actionButtonType)
            l == [loc[p] EXCEPT !.examples = found, !.idx = 1, !.exampleCodes = <<>>,
                                !.codesDefined = (variant # "third"), !.kb = "returned"]
        IN IF SliceTop(found) = <<>> THEN AfterExamples(p, l) ELSE Goto(p, "download", l)
     \/ IF variant = "dropin"
        THEN Catch(p, ServerError, "kb_query", [loc[p] EXCEPT !.kb = "threw"])
        ELSE AfterExamples(p, [loc[p] EXCEPT !.exampleCodes = <<>>, !.codesDefined = TRUE,
                                             !.kb = "threw"])
  /\ UNCHANGED <<variant, fieldBindings, knowledgeBase, generatedCode, nextId, clock,
                 started, req>>
  /\ UNCHANGED <<fnVars, blobs, boot, regenerated>>

\* one iteration of the download loop: the blob download returns or throws
Download(p) ==
  /\ pc[p] = "download"
  /\ LET top == SliceTop(loc[p].examples)
         ex  == top[loc[p].idx]
         got == [fileName |-> ex.fileName, content |-> <<"blob", ex.filePath>>,
                 description |-> ex.description]
     IN \E ok \in BOOLEAN :
          LET l == [loc[p] EXCEPT !.idx = @ + 1,
                      !.exampleCodes = IF ok THEN Append(@, got) ELSE @]
          IN IF loc[p].idx = Len(top) THEN AfterExamples(p, l) ELSE Goto(p, "download", l)
  /\ UNCHANGED <<variant, fieldBindings, knowledgeBase, generatedCode, nextId, clock,
                 started, req>>
  /\ UNCHANGED <<fnVars, blobs, boot, regenerated>>

\* the completion call of POST / returns or throws; on text, build codeRecord
\* and issue the create
CompletionGenerate(p) ==
  /\ pc[p] = "completion"
  /\ req[p].op = "generate"
  /\ \E outcome \in CompletionOutcomes, upstream \in UpstreamStatuses :
       LET fb == loc[p].fieldBinding[1]
           codes == IF variant = "simple" THEN <<>> ELSE loc[p].exampleCodes
           prompt == UserPrompt(req[p].projectName, req[p].actionButtonType,
                                req[p].businessLogic, fb, codes)
           g == Generate(variant, outcome, upstream, prompt)
       IN IF Retries(variant, outcome, loc[p].attempts)
          THEN /\ Goto(p, "completion", [loc[p] EXCEPT !.attempts = @ + 1])
               /\ UNCHANGED <<nextId, clock>>
          ELSE IF g.threw
          THEN /\ Catch(p, CatchStatus(variant, g.status), "completion",
                        [loc[p] EXCEPT !.completion = outcome, !.attempts = @ + 1])
               /\ UNCHANGED <<nextId, clock>>
          ELSE /\ Goto(p, "gc_create",
                       [loc[p] EXCEPT !.generatedCode = g.text, !.completion = outcome,
                          !.attempts = @ + 1,
                          !.record = <<CodeRecord(variant, nextId, clock, req[p], fb,
                                                  g.text, codes)>>])
               /\ nextId' = nextId + 1
               /\ clock' = clock + 1
  /\ UNCHANGED <<variant, fieldBindings, knowledgeBase, generatedCode, started, req>>
  /\ UNCHANGED <<fnVars, blobs, boot, regenerated>>

\* containers.generatedCode.items.create(codeRecord) returns or throws
GcCreate(p) ==
  /\ pc[p] = "gc_create"
  /\ \/ /\ generatedCode' = CreateCode(generatedCode, loc[p].record[1])
        /\ Reply(p, [Response(200) EXCEPT
                       !.codeId = loc[p].record[1].id,
                       !.generatedCode = loc[p].generatedCode,
                       !.usedExamples = IF variant = "simple" THEN -1
                                        ELSE Len(loc[p].exampleCodes)],
                 loc[p])
     \/ /\ Catch(p, ServerError, "gc_create", loc[p])
        /\ UNCHANGED generatedCode
  /\ UNCHANGED <<variant, fieldBindings, knowledgeBase, nextId, clock, started, req>>
  /\ UNCHANGED <<fnVars, blobs, boot, regenerated>>

\* the by-id routes without their projectId check: the read is issued at once
ReceiveByIdUnchecked(p, op) ==
  /\ variant \in FullVariants
  /\ \E id \in 0..(nextId - 1), projectId \in ProjectIds, m \in Modifications :
       /\ op # "regenerate" => m = "m1"
       /\ projectId = <<>> => id = 0 /\ m = "m1"
       /\ Receive(p, [NoReq EXCEPT !.op = op, !.id = id, !.projectId = projectId,
                                   !.modifications = IF op = "regenerate" THEN m ELSE ""])
       /\ GotoNew(p, "gc_read")
  /\ UNCHANGED <<variant, fieldBindings, knowledgeBase, generatedCode, nextId, clock>>
  /\ UNCHANGED <<fnVars, blobs, boot, regenerated>>

\* GET /:id, POST /:id/regenerate, GET /:id/download: the projectId check
ReceiveByIdWithin(p, op, max) ==
  /\ variant \in FullVariants
  /\ \E id \in 0..(nextId - 1), projectId \in ProjectIds, m \in Modifications :
       /\ op # "regenerate" => m = "m1"
       /\ projectId = <<>> => id = 0 /\ m = "m1"
       /\ ReceiveWithin(p, [NoReq EXCEPT !.op = op, !.id = id, !.projectId = projectId,
                                         !.modifications = IF op = "regenerate" THEN m
                                                           ELSE ""], max)
       /\ IF projectId = <<>>
          THEN ReplyNew(p, Response(400))
          ELSE GotoNew(p, "gc_read")
  /\ UNCHANGED <<variant, fieldBindings, knowledgeBase, generatedCode, nextId, clock>>
  /\ UNCHANGED <<fnVars, blobs, boot, regenerated>>

ReceiveById(p, op) == ReceiveByIdWithin(p, op, MaxRequests)

ReceiveGet(p) == ReceiveById(p, "get")
ReceiveRegenerate(p) == ReceiveById(p, "regenerate")
ReceiveDownload(p) == ReceiveById(p, "download")

\* containers.generatedCode.item(id, projectId).read() returns or throws
GcRead(p) ==
  /\ pc[p] = "gc_read"
  /\ \/ LET found == ReadCode(generatedCode, req[p].id, req[p].projectId)
        IN IF found = <<>>
           THEN Reply(p, Response(404), loc[p])
           ELSE CASE req[p].op = "get" ->
                       Reply(p, [Response(200) EXCEPT !.body = found], loc[p])
                  [] req[p].op = "download" ->
                       Reply(p, [Response(200) EXCEPT
                                   !.fileName = FileName(variant, found[1].projectName),
                                   !.generatedCode = found[1].generatedCode], loc[p])
                  [] OTHER ->
                       Goto(p, "completion", [loc[p] EXCEPT !.existingCode = found])
     \/ Catch(p, ServerError, "gc_read", loc[p])
  /\ UNCHANGED <<variant, fieldBindings, knowledgeBase, generatedCode, nextId, clock,
                 started, req>>
  /\ UNCHANGED <<fnVars, blobs, boot, regenerated>>

\* the completion call of regenerate returns or throws; on text, build
\* updatedRecord and issue the replace
CompletionRegenerate(p) ==
  /\ pc[p] = "completion"
  /\ req[p].op = "regenerate"
  /\ \E outcome \in CompletionOutcomes, upstream \in UpstreamStatuses :
       LET old == loc[p].existingCode[1]
           prompt == RegeneratePrompt(variant, old, req[p].modifications)
           g == Generate(variant, outcome, upstream, prompt)
       IN IF g.threw
          THEN /\ Catch(p, CatchStatus(variant, g.status), "completion",
                        [loc[p] EXCEPT !.completion = outcome, !.attempts = @ + 1])
               /\ UNCHANGED clock
          ELSE /\ Goto(p, "gc_replace",
                       [loc[p] EXCEPT !.generatedCode = g.text, !.completion = outcome,
                          !.attempts = @ + 1,
                          !.record = <<UpdatedRecord(variant, old, g.text,
                                                     req[p].modifications, clock)>>])
               /\ clock' = clock + 1
  /\ UNCHANGED <<variant, fieldBindings, knowledgeBase, generatedCode, nextId, started, req>>
  /\ UNCHANGED <<fnVars, blobs, boot, regenerated>>

\* containers.generatedCode.item(id, projectId).replace(updatedRecord) returns or throws
GcReplace(p) ==
  /\ pc[p] = "gc_replace"
  /\ \/ /\ generatedCode' = ReplaceCode(generatedCode, req[p].id, req[p].projectId,
                                        loc[p].record[1])
        /\ Reply(p, [Response(200) EXCEPT
                       !.codeId = loc[p].record[1].id,
                       !.generatedCode = loc[p].generatedCode,
                       !.version = loc[p].record[1].version],
                 loc[p])
        /\ regenerated' = CountRegenerated(regenerated, req[p].id)
     \/ /\ Catch(p, ServerError, "gc_replace", loc[p])
        /\ UNCHANGED <<generatedCode, regenerated>>
  /\ UNCHANGED <<variant, fieldBindings, knowledgeBase, nextId, clock, started, req>>
  /\ UNCHANGED <<fnVars, blobs, boot>>

\* PUT /api/field-bindings/:id: the read of the existing binding is issued
ReceivePutBinding(p) ==
  \E u \in BindingUpdates :
    /\ Receive(p, [NoReq EXCEPT !.op = "putBinding", !.fieldBindingId = u.id,
                                !.actionButtonType = u.actionButtonType,
                                !.fields = u.fields, !.bodyId = u.bodyId])
    /\ GotoNew(p, "b_read")
    /\ UNCHANGED <<variant, fieldBindings, knowledgeBase, generatedCode, nextId, clock>>
    /\ UNCHANGED <<fnVars, blobs, boot, regenerated>>

\* DELETE /api/field-bindings/:id: 400 without the actionButtonType query
\* parameter, otherwise the delete is issued
ReceiveDeleteBinding(p) ==
  \E d \in BindingDeletes :
    /\ Receive(p, [NoReq EXCEPT !.op = "deleteBinding", !.fieldBindingId = d.id,
                                !.actionButtonType = d.actionButtonType])
    /\ IF d.actionButtonType = ""
       THEN ReplyNew(p, Response(400))
       ELSE GotoNew(p, "b_delete")
    /\ UNCHANGED <<variant, fieldBindings, knowledgeBase, generatedCode, nextId, clock>>
    /\ UNCHANGED <<fnVars, blobs, boot, regenerated>>

\* containers.fieldBindings.item(id, updates.actionButtonType).read() returns or
\* throws: 404 without a resource, otherwise the replace is issued
BindingRead(p) ==
  /\ pc[p] = "b_read"
  /\ \/ LET found == ReadBinding(fieldBindings, req[p].fieldBindingId,
                                 req[p].actionButtonType)
        IN IF found = <<>>
           THEN Reply(p, Response(404), loc[p])
           ELSE Goto(p, "b_replace", [loc[p] EXCEPT !.existingBinding = found])
     \/ Catch(p, ServerError, "b_read", loc[p])
  /\ UNCHANGED <<variant, fieldBindings, knowledgeBase, generatedCode, nextId, clock,
                 started, req>>
  /\ UNCHANGED <<fnVars, blobs, boot, regenerated>>

\* containers.fieldBindings.item(id, updates.actionButtonType).replace(updatedBinding)
\* returns or throws; it throws when the document is no longer there
BindingReplace(p) ==
  /\ pc[p] = "b_replace"
  /\ \/ /\ ReadBinding(fieldBindings, req[p].fieldBindingId,
                        req[p].actionButtonType) # <<>>
        /\ fieldBindings' = ReplaceBinding(fieldBindings, req[p].fieldBindingId,
                               req[p].actionButtonType,
                               UpdatedBinding(loc[p].existingBinding[1], req[p]))
        /\ Reply(p, Response(200), loc[p])
     \/ /\ Catch(p, ServerError, "b_replace", loc[p])
        /\ UNCHANGED fieldBindings
  /\ UNCHANGED <<variant, knowledgeBase, generatedCode, nextId, clock, started, req>>
  /\ UNCHANGED <<fnVars, blobs, boot, regenerated>>

\* containers.fieldBindings.item(id, actionButtonType).delete() returns or
\* throws; it throws when there is no such document
BindingDelete(p) ==
  /\ pc[p] = "b_delete"
  /\ \/ /\ ReadBinding(fieldBindings, req[p].fieldBindingId,
                        req[p].actionButtonType) # <<>>
        /\ fieldBindings' = DeleteBinding(fieldBindings, req[p].fieldBindingId,
                                          req[p].actionButtonType)
        /\ Reply(p, Response(200), loc[p])
     \/ /\ Catch(p, ServerError, "b_delete", loc[p])
        /\ UNCHANGED fieldBindings
  /\ UNCHANGED <<variant, knowledgeBase, generatedCode, nextId, clock, started, req>>
  /\ UNCHANGED <<fnVars, blobs, boot, regenerated>>

\* the document an earlier POST / of the deployed variant wrote for the first
\* request body (no example downloaded): what the store holds when the server
\* comes up over a container that is not empty
SeedBody ==
  [projectName |-> <<"M","y","-","2">>, actionButtonType |-> "T1",
   businessLogic |-> <<"BL">>, fieldBindingId |-> "b1"]

SeedRecord(v) ==
  CodeRecord(v, 1, 1, SeedBody, Binding1,
             ModelText(UserPrompt(SeedBody.projectName, SeedBody.actionButtonType,
                                  SeedBody.businessLogic, Binding1, <<>>)), <<>>)

\* the server is up, no request has arrived.  Under the variants that route
\* requests by id the generatedCode container holds the document of one earlier
\* generation, under the others it is empty
Init ==
  /\ variant \in Variants
  /\ fieldBindings = {Binding1}
  /\ knowledgeBase \in KnowledgeBases
  /\ blobs = BlobsOf(knowledgeBase)
  /\ \/ /\ variant \notin FullVariants
        /\ generatedCode = {} /\ nextId = 1 /\ clock = 1
     \/ /\ variant \in FullVariants
        /\ generatedCode = {SeedRecord(variant)} /\ nextId = 2 /\ clock = 2
  /\ started = 0
  /\ pc = [p \in Procs |-> "idle"]
  /\ req = [p \in Procs |-> NoReq]
  /\ loc = [p \in Procs |-> NoLoc]
  /\ resp = [p \in Procs |-> <<>>]
  /\ fnOp = "none"
  /\ fnArg = NoArg
  /\ fnRes = <<>>
  /\ boot = Running
  /\ regenerated = NoneRegenerated

Next ==
  \E p \in Procs :
    \/ ReceiveGenerate(p)
    \/ FbRead(p)
    \/ FbQuery(p)
    \/ KbQuery(p)
    \/ Download(p)
    \/ CompletionGenerate(p)
    \/ GcCreate(p)
    \/ ReceiveGet(p)
    \/ ReceiveRegenerate(p)
    \/ ReceiveDownload(p)
    \/ GcRead(p)
    \/ CompletionRegenerate(p)
    \/ GcReplace(p)

Spec == Init /\ [][Next]_vars

----------------------------------------------------------------------------
(* A series of regenerate requests on the documents of the store, two of    *)
(* them in flight at a time, under a version that routes regenerate         *)

MaxRegenerates == 3   \* regenerate requests received in one run

ReceiveRegenerateSeries(p) == ReceiveByIdWithin(p, "regenerate", MaxRegenerates)

InitRegen ==
  /\ Init
  /\ variant \in FullVariants
  /\ knowledgeBase = <<>>

NextRegen ==
  \E p \in Procs :
    \/ ReceiveRegenerateSeries(p)
    \/ GcRead(p)
    \/ CompletionRegenerate(p)
    \/ GcReplace(p)

SpecRegen == InitRegen /\ [][NextRegen]_vars

----------------------------------------------------------------------------
(* The bindings API next to generation and regeneration: a version that     *)
(* routes regenerate is deployed, over an empty knowledge base               *)

InitBind ==
  /\ Init
  /\ variant \in FullVariants
  /\ knowledgeBase = <<>>

NextBind ==
  \E p \in Procs :
    \/ ReceiveGenerate(p)
    \/ FbRead(p)
    \/ FbQuery(p)
    \/ KbQuery(p)
    \/ CompletionGenerate(p)
    \/ GcCreate(p)
    \/ ReceiveRegenerate(p)
    \/ GcRead(p)
    \/ CompletionRegenerate(p)
    \/ GcReplace(p)
    \/ ReceivePutBinding(p)
    \/ ReceiveDeleteBinding(p)
    \/ BindingRead(p)
    \/ BindingReplace(p)
    \/ BindingDelete(p)

SpecBind == InitBind /\ [][NextBind]_vars

----------------------------------------------------------------------------
(* The knowledge-base routes: upload and delete of examples.  A handler      *)
(* keeps the knowledge document it is working on in loc.record and the       *)
(* number of the file of the upload loop in loc.idx                          *)

\* req.files of one upload: upload.array('files', 10), here up to MaxFiles
MaxFiles == 2

\* knowledgeItem of the file that got fileId
KnowledgeItem(fileId) == Example(fileId)

\* one iteration of `for (const file of req.files)` begins: fileId = uuidv4(),
\* the blob path is built and uploadData is issued
NextFile(p, n, l) ==
  /\ pc' = [pc EXCEPT ![p] = "blob_upload"]
  /\ loc' = [loc EXCEPT ![p] = [l EXCEPT !.idx = n, !.record = <<KnowledgeItem(nextId)>>]]
  /\ nextId' = nextId + 1

\* POST /api/knowledge/upload: 400 without files, otherwise the first file
ReceiveUpload(p) ==
  \E n \in 0..MaxFiles :
    /\ Receive(p, [NoReq EXCEPT !.op = "upload", !.files = n,
                                !.actionButtonType = "T1"])
    /\ IF n = 0
       THEN ReplyNew(p, Response(400)) /\ UNCHANGED nextId
       ELSE NextFile(p, 1, NoLoc) /\ resp' = [resp EXCEPT ![p] = <<>>]
    /\ UNCHANGED <<variant, fieldBindings, knowledgeBase, blobs, generatedCode, clock>>
    /\ UNCHANGED <<fnVars, boot, regenerated>>

\* blockBlobClient.uploadData returns or throws; on return the metadata
\* create is issued
BlobUpload(p) ==
  /\ pc[p] = "blob_upload"
  /\ \/ /\ blobs' = blobs \cup {loc[p].record[1].filePath}
        /\ Goto(p, "kb_create", loc[p])
     \/ /\ Catch(p, ServerError, "blob_upload", loc[p])
        /\ UNCHANGED blobs
  /\ UNCHANGED <<variant, fieldBindings, knowledgeBase, generatedCode, nextId, clock,
                 started, req>>
  /\ UNCHANGED <<fnVars, boot, regenerated>>

\* containers.knowledgeBase.items.create(knowledgeItem) returns or throws; on
\* return the loop goes on to the next file or the response is sent
KbCreate(p) ==
  /\ pc[p] = "kb_create"
  /\ \/ /\ knowledgeBase' = CreateKnowledge(knowledgeBase, loc[p].record[1])
        /\ IF loc[p].idx < req[p].files
           THEN NextFile(p, loc[p].idx + 1, loc[p]) /\ resp' = resp
           ELSE Reply(p, Response(200), loc[p]) /\ UNCHANGED nextId
     \/ /\ Catch(p, ServerError, "kb_create", loc[p])
        /\ UNCHANGED <<knowledgeBase, nextId>>
  /\ UNCHANGED <<variant, fieldBindings, blobs, generatedCode, clock, started, req>>
  /\ UNCHANGED <<fnVars, boot, regenerated>>

\* DELETE /api/knowledge/:id: the read of the metadata is issued
ReceiveDeleteKnowledge(p) ==
  \E id \in 1..(nextId - 1) :
    /\ Receive(p, [NoReq EXCEPT !.op = "deleteKnowledge", !.id = id])
    /\ GotoNew(p, "kb_read")
    /\ UNCHANGED <<variant, fieldBindings, knowledgeBase, blobs, generatedCode, nextId,
                   clock>>
    /\ UNCHANGED <<fnVars, boot, regenerated>>

\* the read returns (404 without a resource, otherwise deleteIfExists is
\* issued) or throws
KbRead(p) ==
  /\ pc[p] = "kb_read"
  /\ \/ LET resource == ReadKnowledge(knowledgeBase, req[p].id)
        IN IF resource = <<>>
           THEN Reply(p, Response(404), loc[p])
           ELSE Goto(p, "blob_delete", [loc[p] EXCEPT !.record = resource])
     \/ Catch(p, ServerError, "kb_read", loc[p])
  /\ UNCHANGED <<variant, fieldBindings, knowledgeBase, blobs, generatedCode, nextId,
                 clock, started, req>>
  /\ UNCHANGED <<fnVars, boot, regenerated>>

\* blockBlobClient.deleteIfExists() returns or throws; on return the metadata
\* delete is issued
BlobDelete(p) ==
  /\ pc[p] = "blob_delete"
  /\ \/ /\ blobs' = blobs \ {loc[p].record[1].filePath}
        /\ Goto(p, "kb_delete", loc[p])
     \/ /\ Catch(p, ServerError, "blob_delete", loc[p])
        /\ UNCHANGED blobs
  /\ UNCHANGED <<variant, fieldBindings, knowledgeBase, generatedCode, nextId, clock,
                 started, req>>
  /\ UNCHANGED <<fnVars, boot, regenerated>>

\* containers.knowledgeBase.item(id, 'knowledge').delete() returns or throws;
\* it throws when the document is no longer there
KbDelete(p) ==
  /\ pc[p] = "kb_delete"
  /\ \/ /\ ReadKnowledge(knowledgeBase, req[p].id) # <<>>
        /\ knowledgeBase' = DeleteKnowledge(knowledgeBase, req[p].id)
        /\ Reply(p, Response(200), loc[p])
     \/ /\ Catch(p, ServerError, "kb_delete", loc[p])
        /\ UNCHANGED knowledgeBase
  /\ UNCHANGED <<variant, fieldBindings, blobs, generatedCode, nextId, clock, started,
                 req>>
  /\ UNCHANGED <<fnVars, boot, regenerated>>

InitKnow ==
  /\ Init
  /\ variant = "main"

NextKnow ==
  \E p \in Procs :
    \/ ReceiveUpload(p)
    \/ BlobUpload(p)
    \/ KbCreate(p)
    \/ ReceiveDeleteKnowledge(p)
    \/ KbRead(p)
    \/ BlobDelete(p)
    \/ KbDelete(p)

SpecKnow == InitKnow /\ [][NextKnow]_vars

----------------------------------------------------------------------------
(* Generation over a knowledge base with more examples than the route uses *)

\* four examples of the requested type, newest first
KnowledgeBase4 == <<Example(4), Example(3), Example(2), Example(1)>>

InitKb ==
  /\ variant \in Variants
  /\ fieldBindings = {Binding1}
  /\ knowledgeBase = KnowledgeBase4
  /\ blobs = BlobsOf(knowledgeBase)
  /\ generatedCode = {} /\ nextId = 1 /\ clock = 1
  /\ started = 0
  /\ pc = [p \in Procs |-> "idle"]
  /\ req = [p \in Procs |-> NoReq]
  /\ loc = [p \in Procs |-> NoLoc]
  /\ resp = [p \in Procs |-> <<>>]
  /\ fnOp = "none"
  /\ fnArg = NoArg
  /\ fnRes = <<>>
  /\ boot = Running
  /\ regenerated = NoneRegenerated

NextKb ==
  \E p \in Procs :
    \/ ReceiveGenerate(p)
    \/ FbRead(p)
    \/ FbQuery(p)
    \/ KbQuery(p)
    \/ Download(p)
    \/ CompletionGenerate(p)
    \/ GcCreate(p)

SpecKb == InitKb /\ [][NextKb]_vars

----------------------------------------------------------------------------
(* Startup of the process: startup.js and the simplified startup *)

\* requiredEnvVars.filter(varName => !process.env[varName])
MissingVars(env) == RequiredEnvVars \ env

\* process.exit(code)
Exit(code) == boot' = [boot EXCEPT !.phase = "exited", !.exitCode = code]

\* require('./config/azure') at the top of startup.js builds the clients from
\* the environment; a client constructor given no endpoint or connection string
\* may throw, which ends the process with an uncaught exception
RequireAzure ==
  /\ boot.entry = "startup" /\ boot.phase = "load"
  /\ \/ boot' = [boot EXCEPT !.phase = "check"]
     \/ /\ {"COSMOS_ENDPOINT", "AZURE_STORAGE_CONNECTION_STRING"} \ boot.env # {}
        /\ Exit(1)
  /\ UNCHANGED <<reqVars, fnVars>>

\* startApplication up to the await: the environment check
CheckEnv ==
  /\ boot.entry = "startup" /\ boot.phase = "check"
  /\ IF MissingVars(boot.env) # {}
     THEN Exit(1)
     ELSE boot' = [boot EXCEPT !.phase = "init"]
  /\ UNCHANGED <<reqVars, fnVars>>

\* initializeAzureServices() resolves true or false
InitializeAzureServices ==
  /\ boot.entry = "startup" /\ boot.phase = "init"
  /\ \E azureInitialized \in BOOLEAN :
       IF azureInitialized
       THEN boot' = [boot EXCEPT !.phase = "server", !.azure = "ok"]
       ELSE boot' = [boot EXCEPT !.phase = "exited", !.exitCode = 1, !.azure = "failed"]
  /\ UNCHANGED <<reqVars, fnVars>>

\* require('./server'): app.listen, or the module throws while loading and
\* the catch of startApplication() exits
RequireServer ==
  /\ boot.entry = "startup" /\ boot.phase = "server"
  /\ \/ boot' = [boot EXCEPT !.phase = "listening"]
     \/ Exit(1)
  /\ UNCHANGED <<reqVars, fnVars>>

\* the simplified startup: require('./server') at once
SimplifiedStartup ==
  /\ boot.entry = "simplified" /\ boot.phase = "load"
  /\ boot' = [boot EXCEPT !.phase = "listening"]
  /\ UNCHANGED <<reqVars, fnVars>>

InitStart ==
  /\ variant = "main"
  /\ fieldBindings = {} /\ knowledgeBase = <<>> /\ blobs = {}
  /\ generatedCode = {} /\ nextId = 1 /\ clock = 1
  /\ started = 0
  /\ pc = [p \in Procs |-> "idle"]
  /\ req = [p \in Procs |-> NoReq]
  /\ loc = [p \in Procs |-> NoLoc]
  /\ resp = [p \in Procs |-> <<>>]
  /\ fnOp = "none"
  /\ fnArg = NoArg
  /\ fnRes = <<>>
  /\ regenerated = NoneRegenerated
  /\ \E e \in Entries, env \in SUBSET RequiredEnvVars :
       boot = [entry |-> e, env |-> env, phase |-> "load", azure |-> "none",
               exitCode |-> -1]

NextStart ==
  \/ RequireAzure
  \/ CheckEnv
  \/ InitializeAzureServices
  \/ RequireServer
  \/ SimplifiedStartup

SpecStart == InitStart /\ [][NextStart]_vars

----------------------------------------------------------------------------
(* The pure helpers on their own: an input is drawn, a helper is applied *)

\* the digits version components are made of, and the characters of project names
VersionDigits == {"0", "9"}
NameChars == {"M", "y", " ", "!", "2", "-", "_", ".", "/"}

StringsOver(chars, n) == UNION { [1..k -> chars] : k \in 0..n }

VersionComponents == StringsOver(VersionDigits, MaxDigits) \ {<<>>}

\* 'M.m.p' for components of up to MaxDigits digits, and the versions the
\* specification names
FnVersions ==
  { a \o Dot \o b \o Dot \o c : a \in VersionComponents, b \in VersionComponents,
                                c \in VersionComponents }
  \cup { <<"1",".","2",".","9">>, <<"1",".","0",".","0">> }

\* project names of up to MaxNameLen characters, and the names the
\* specification names
FnNames ==
  StringsOver(NameChars, MaxNameLen)
  \cup { <<"M","y"," ","P","r","o","j","e","c","t","!"," ","2">>, <<".",".","/",".",".","/","e","t","c">> }

FnArgs ==
  [kind : {"version"}, v : FullVariants, s : FnVersions, other : {""}]
  \cup [kind : {"name"}, v : FullVariants, s : FnNames, other : {"T1", "T2"}]

\* the version of the updatedRecord regenerate builds over a record stored
\* with this version
ApplyUpdatedRecord ==
  /\ fnOp = "none"
  /\ fnArg.kind = "version"
  /\ fnOp' = "updatedRecord"
  /\ fnRes' = UpdatedRecord(fnArg.v, [SeedRecord(fnArg.v) EXCEPT !.version = fnArg.s],
                            <<"code">>, "m1", 2).version
  /\ UNCHANGED fnArg
  /\ UNCHANGED svcVars

\* the codeRecord POST / builds for a body with this projectName
ApplyCodeRecord ==
  /\ fnOp = "none"
  /\ fnArg.kind = "name"
  /\ fnOp' = "codeRecord"
  /\ fnRes' = CodeRecord(fnArg.v, 1, 1,
                         [projectName |-> fnArg.s, actionButtonType |-> fnArg.other,
                          businessLogic |-> <<"BL">>, fieldBindingId |-> "b1"],
                         Binding1, <<>>, <<>>).projectId
  /\ UNCHANGED fnArg
  /\ UNCHANGED svcVars

\* the file name GET /:id/download sends for a stored projectName
ApplyFileName ==
  /\ fnOp = "none"
  /\ fnArg.kind = "name"
  /\ fnOp' = "fileName"
  /\ fnRes' = FileName(fnArg.v, fnArg.s)
  /\ UNCHANGED fnArg
  /\ UNCHANGED svcVars

InitFn ==
  /\ variant = "main"
  /\ fieldBindings = {Binding1}
  /\ knowledgeBase = <<>>
  /\ blobs = {}
  /\ generatedCode = {} /\ nextId = 1 /\ clock = 1
  /\ started = 0
  /\ pc = [p \in Procs |-> "idle"]
  /\ req = [p \in Procs |-> NoReq]
  /\ loc = [p \in Procs |-> NoLoc]
  /\ resp = [p \in Procs |-> <<>>]
  /\ fnOp = "none"
  /\ fnArg \in FnArgs
  /\ fnRes = <<>>
  /\ boot = Running
  /\ regenerated = NoneRegenerated

NextFn ==
  \/ ApplyUpdatedRecord
  \/ ApplyCodeRecord
  \/ ApplyFileName

SpecFn == InitFn /\ [][NextFn]_vars

----------------------------------------------------------------------------
(* POST /api/field-bindings/validate on its own: the handler has no await,   *)
(* a body is drawn and the response is computed                              *)

MaxFields == 2       \* fields per validated list

DataTypes == {"string", "number", "boolean", "date", "array"}
Classifications == {"dimension", "measure", "parameter"}

\* the fields a body is made of: a property that is missing or empty is ""
FieldValues ==
  [name : {"", "a", "b"}, dataType : {"", "string", "text"},
   classification : {"", "dimension", "measure", "parameter", "key"}]

FieldLists == UNION { [1..k -> FieldValues] : k \in 0..MaxFields }

\* the name check without the fieldNames set
NameErrorsNoSet(field, index, fieldNames) ==
  IF field.name = "" THEN << <<index, "Missing name">> >> ELSE <<>>

\* the name check of one field against the names seen so far
NameErrors(field, index, fieldNames) ==
  IF field.name = "" THEN << <<index, "Missing name">> >>
  ELSE IF field.name \in fieldNames THEN << <<index, "Duplicate field name">> >>
  ELSE <<>>

DataTypeErrors(field, index) ==
  IF field.dataType = "" THEN << <<index, "Missing dataType">> >>
  ELSE IF field.dataType \notin DataTypes THEN << <<index, "Invalid dataType">> >>
  ELSE <<>>

ClassificationErrors(field, index) ==
  IF field.classification = "" THEN << <<index, "Missing classification">> >>
  ELSE IF field.classification \notin Classifications
       THEN << <<index, "Invalid classification">> >>
  ELSE <<>>

\* fields.forEach((field, index) => ...) from the field at position i on
RECURSIVE ForEachField(_, _, _, _)
ForEachField(fields, i, fieldNames, validationErrors) ==
  IF i > Len(fields) THEN validationErrors
  ELSE LET field == fields[i]
       IN ForEachField(fields, i + 1,
            IF field.name # "" THEN fieldNames \cup {field.name} ELSE fieldNames,
            validationErrors \o NameErrors(field, i, fieldNames)
              \o DataTypeErrors(field, i) \o ClassificationErrors(field, i))

\* fields.filter(f => f.classification === c).length
CountOf(fields, c) == Cardinality({i \in DOMAIN fields : fields[i].classification = c})

\* the response of the validate route for a fields array
ValidateFields(fields) ==
  LET perField == ForEachField(fields, 1, {}, <<>>)
      dimensions == CountOf(fields, "dimension")
      measures == CountOf(fields, "measure")
      validationErrors ==
        perField
          \o (IF dimensions = 0 THEN << <<0, "At least one dimension">> >> ELSE <<>>)
          \o (IF measures = 0 THEN << <<0, "At least one measure">> >> ELSE <<>>)
  IN [status |-> 200, isValid |-> (Len(validationErrors) = 0),
      errors |-> validationErrors,
      summary |-> [totalFields |-> Len(fields), dimensions |-> dimensions,
                   measures |-> measures,
                   parameters |-> CountOf(fields, "parameter")]]

\* bodies of the validate route: `fields` an array, or not an array
ValidateArgs ==
  [kind : {"fields"}, v : {"main"}, s : FieldLists, other : {"array"}]
  \cup [kind : {"fields"}, v : {"main"}, s : {<<>>}, other : {"none"}]

\* POST /validate: 400 unless fields is an array, otherwise the verdict
ApplyValidate ==
  /\ fnOp = "none"
  /\ fnArg.kind = "fields"
  /\ fnOp' = "validate"
  /\ fnRes' = IF fnArg.other # "array"
              THEN [status |-> 400, isValid |-> FALSE, errors |-> <<>>,
                    summary |-> [totalFields |-> 0, dimensions |-> 0, measures |-> 0,
                                 parameters |-> 0]]
              ELSE ValidateFields(fnArg.s)
  /\ UNCHANGED fnArg
  /\ UNCHANGED svcVars

InitValidate ==
  /\ variant = "main"
  /\ fieldBindings = {Binding1}
  /\ knowledgeBase = <<>>
  /\ blobs = {}
  /\ generatedCode = {} /\ nextId = 1 /\ clock = 1
  /\ started = 0
  /\ pc = [p \in Procs |-> "idle"]
  /\ req = [p \in Procs |-> NoReq]
  /\ loc = [p \in Procs |-> NoLoc]
  /\ resp = [p \in Procs |-> <<>>]
  /\ fnOp = "none"
  /\ fnArg \in ValidateArgs
  /\ fnRes = <<>>
  /\ boot = Running
  /\ regenerated = NoneRegenerated

NextValidate == ApplyValidate

SpecValidate == InitValidate /\ [][NextValidate]_vars

----------------------------------------------------------------------------
(* Properties *)

\* the request in slot p is a request of this route and has been answered
Done(p, op) == pc[p] = "done" /\ req[p].op = op

\* the last response sent to the request in slot p
Answer(p) == resp[p][Len(resp[p])]

\* one of the four required fields of a POST / body is missing or empty
MissingField(r) ==
  \/ r.projectName = <<>> \/ r.actionButtonType = ""
  \/ r.businessLogic = <<>> \/ r.fieldBindingId = ""

IsAlnum(c) == IsLower(c) \/ IsUpper(c) \/ IsDigit(c)

\* C1: a POST / whose body lacks one of projectName, actionButtonType,
\* businessLogic, fieldBindingId is answered 400 at once: it never waits on a
\* downstream call and nothing of a downstream call is in its locals.
C1_MissingFieldRejected ==
  \A p \in Procs :
    req[p].op = "generate" /\ MissingField(req[p])
      => /\ pc[p] = "done"
         /\ Len(resp[p]) = 1
         /\ Answer(p).status = 400
         /\ loc[p] = NoLoc

\* C2: the generated-code store changes only in the create or replace step of a
\* request whose generation produced code and which is answered 200 in that
\* step, and the document written carries that code; so a request not answered
\* 200 has written nothing and a regenerate whose generation failed has left
\* the record as it was.
C2_WritesOnlyAfterGeneration ==
  [][generatedCode' # generatedCode
       => \E p \in Procs :
            /\ pc[p] \in {"gc_create", "gc_replace"}
            /\ pc'[p] = "done"
            /\ resp'[p][Len(resp'[p])].status = 200
            /\ loc[p].completion = "ok"
            /\ loc[p].generatedCode # <<>>
            /\ loc[p].record[1].generatedCode = loc[p].generatedCode
            /\ loc[p].record[1] \in generatedCode']_vars

\* C3: a POST / with all four fields whose fieldBindingId is the id of a
\* binding in the store is never answered 404, whatever the direct read did
\* (threw, returned no document, or was keyed by another type).
C3_FallbackResolves ==
  \A p \in Procs :
    /\ Done(p, "generate")
    /\ ~MissingField(req[p])
    /\ \E b \in fieldBindings : b.id = req[p].fieldBindingId
    => Answer(p).status # 404

\* both slots hold answered regenerate requests of the same record, both 200
BothRegenerated(p, q) ==
  /\ p # q
  /\ Done(p, "regenerate") /\ Done(q, "regenerate")
  /\ req[p].id = req[q].id /\ req[p].projectId = req[q].projectId
  /\ Answer(p).status = 200 /\ Answer(q).status = 200

\* C4: after two regenerate requests of the same record have both been
\* answered 200, the stored record is, field for field, the updatedRecord one
\* of the two wrote: its version is one of the two versions attempted, and its
\* generatedCode, businessLogic and status come from that same request.
C4_StoredIsOneWrite ==
  \A p \in Procs, q \in Procs :
    BothRegenerated(p, q)
      => LET stored == ReadCode(generatedCode, req[p].id, req[p].projectId)
         IN /\ stored # <<>>
            /\ stored \in {loc[p].record, loc[q].record}
            /\ stored[1].version \in {Answer(p).version, Answer(q).version}

\* the two requests overlapped: both read the record before either replaced
\* it, and they wrote different documents
C4_Witness ==
  \E p \in Procs, q \in Procs :
    /\ BothRegenerated(p, q)
    /\ loc[p].existingCode = loc[q].existingCode
    /\ loc[p].record # loc[q].record
    /\ req[p].modifications # req[q].modifications
    /\ ReadCode(generatedCode, req[p].id, req[p].projectId) = loc[q].record

\* s is a non-empty string of digits
IsNumeral(s) == s # <<>> /\ \A i \in DOMAIN s : IsDigit(s[i])

\* s is 'M.m.p' with M, m and p numerals
IsVersion(s) ==
  LET parts == SplitDots(s)
  IN Len(parts) = 3 /\ \A i \in 1..3 : IsNumeral(parts[i])

\* C5: for a stored version 'M.m.p' of three non-negative integers, the version
\* regenerate writes is 'M.m.q' with the integer q = p + 1 printed in decimal
\* and the integers M and m unchanged; '1.2.9' gives '1.2.10' and '1.0.0'
\* gives '1.0.1'.
C5_PatchIncrement ==
  fnOp = "updatedRecord" /\ IsVersion(fnArg.s)
    => LET old == SplitDots(fnArg.s)
           new == SplitDots(fnRes)
       IN /\ IsVersion(fnRes)
          /\ DigitsValue(new[1]) = DigitsValue(old[1])
          /\ DigitsValue(new[2]) = DigitsValue(old[2])
          /\ DigitsValue(new[3]) = DigitsValue(old[3]) + 1
          /\ new[3] = NatToString(DigitsValue(old[3]) + 1)
          /\ (fnArg.s = <<"1",".","2",".","9">> => fnRes = <<"1",".","2",".","1","0">>)
          /\ (fnArg.s = <<"1",".","0",".","0">> => fnRes = <<"1",".","0",".","1">>)

\* a patch of 9 carried into two digits
C5_Witness ==
  /\ fnOp = "updatedRecord"
  /\ fnArg.s = <<"1",".","2",".","9">>
  /\ fnRes = <<"1",".","2",".","1","0">>

\* the major and minor components of a version
MajorMinor(version) == SubSeq(SplitDots(version), 1, 2)

\* C6: the step in which a regenerate of (id, projectId) replaces the record
\* and answers 200 leaves the record's id, projectId, projectName,
\* actionButtonType, fieldBindingId, fieldBinding snapshot, examples and the
\* major and minor components of its version as they were stored, and leaves
\* every other record of the store as it was: none added, changed or removed.
C6_RegenerateFrame ==
  [][\A p \in Procs :
       /\ pc[p] = "gc_replace"
       /\ pc'[p] = "done"
       /\ resp'[p][Len(resp'[p])].status = 200
       => LET old == ReadCode(generatedCode, req[p].id, req[p].projectId)
              new == ReadCode(generatedCode', req[p].id, req[p].projectId)
          IN /\ old # <<>> /\ new # <<>>
             /\ new[1].id = old[1].id
             /\ new[1].projectId = old[1].projectId
             /\ new[1].projectName = old[1].projectName
             /\ new[1].actionButtonType = old[1].actionButtonType
             /\ new[1].fieldBindingId = old[1].fieldBindingId
             /\ new[1].fieldBinding = old[1].fieldBinding
             /\ new[1].examples = old[1].examples
             /\ MajorMinor(new[1].version) = MajorMinor(old[1].version)
             /\ generatedCode' \ {new[1]} = generatedCode \ {old[1]}]_vars

\* a regenerate answered 200 whose document is the stored one, beside another
\* record of the store, with a binding snapshot and a downloaded example kept
C6_Witness ==
  \E p \in Procs :
    /\ Done(p, "regenerate")
    /\ Answer(p).status = 200
    /\ ReadCode(generatedCode, req[p].id, req[p].projectId) = loc[p].record
    /\ loc[p].record[1].status = "regenerated"
    /\ loc[p].record[1].fieldBinding # <<>>
    /\ loc[p].record[1].generatedCode # loc[p].existingCode[1].generatedCode
    /\ Cardinality(generatedCode) = 2

\* lowercase every letter, keep letters and digits, drop everything else
RECURSIVE ExpectedProjectId(_)
ExpectedProjectId(name) ==
  IF name = <<>> THEN <<>>
  ELSE LET c == name[1]
           rest == ExpectedProjectId(Tail(name))
       IN IF IsUpper(c) THEN <<ToLowerChar(c)>> \o rest
          ELSE IF IsLower(c) \/ IsDigit(c) THEN <<c>> \o rest
          ELSE rest

\* C7: the projectId of the record POST / builds is the projectName lowercased
\* with every character that is not a letter or digit removed, whatever the
\* other fields of the request are; 'My Project! 2' gives 'myproject2'.
C7_ProjectIdDerivation ==
  fnOp = "codeRecord"
    => /\ fnRes = ExpectedProjectId(fnArg.s)
       /\ (fnArg.s = <<"M","y"," ","P","r","o","j","e","c","t","!"," ","2">>
             => fnRes = <<"m","y","p","r","o","j","e","c","t","2">>)

\* the name of the specification, derived
C7_Witness ==
  /\ fnOp = "codeRecord"
  /\ fnArg.s = <<"M","y"," ","P","r","o","j","e","c","t","!"," ","2">>
  /\ fnRes = <<"m","y","p","r","o","j","e","c","t","2">>

\* the file name is letters and digits followed by '.js'
AlnumFileName(f) ==
  /\ Len(f) >= 3
  /\ SubSeq(f, Len(f) - 2, Len(f)) = <<".","j","s">>
  /\ \A i \in 1..(Len(f) - 3) : IsAlnum(f[i])

\* C8: the file name of every download answered 200 consists of letters and
\* digits only, apart from the '.js' extension.
C8_AlnumFileName ==
  \A p \in Procs :
    Done(p, "download") /\ Answer(p).status = 200 => AlnumFileName(Answer(p).fileName)

\* C9: once a POST / has been answered 200 with a codeId, a GET of that codeId
\* with the projectId derived from the request's projectName is served (the
\* projectId is not empty), finds the record, and the record's generatedCode
\* is not empty.
C9_GeneratedIsRetrievable ==
  \A p \in Procs :
    Done(p, "generate") /\ Answer(p).status = 200 /\ Answer(p).codeId # 0
      => LET projectId == ProjectIdOf(req[p].projectName)
             found == ReadCode(generatedCode, Answer(p).codeId, projectId)
         IN /\ variant \in FullVariants
            /\ projectId # <<>>
            /\ found # <<>>
            /\ found[1].generatedCode # <<>>

\* C10: a POST / whose knowledge query returned no example has called the
\* completion service by the time it is answered, and when it is answered 200
\* the response says usedExamples 0 and the store holds the record of the
\* codeId answered, with no examples.
C10_ZeroExamplesStillGenerates ==
  \A p \in Procs :
    Done(p, "generate") /\ loc[p].kb = "returned" /\ loc[p].examples = <<>>
      => /\ loc[p].completion # "none"
         /\ Answer(p).status = 200
              => /\ Answer(p).usedExamples = 0
                 /\ \E r \in generatedCode :
                      r.id = Answer(p).codeId /\ r.examples = <<>>

\* the example retrieval of the request in slot p met a failure: the knowledge
\* query threw, or it returned and a download of one of the top examples threw
RetrievalFailed(p) ==
  \/ loc[p].kb = "threw"
  \/ /\ loc[p].kb = "returned"
     /\ loc[p].idx > Len(SliceTop(loc[p].examples))
     /\ Len(loc[p].exampleCodes) < Len(SliceTop(loc[p].examples))

\* C11: an answered POST / whose example retrieval met a failure (the knowledge
\* query threw, or a download threw) has made its completion call, with zero
\* examples when it was the query that threw; the failure itself never
\* answers the request.
C11_RetrievalFailureNeverAborts ==
  \A p \in Procs :
    Done(p, "generate") /\ RetrievalFailed(p)
      => /\ loc[p].completion # "none"
         /\ loc[p].threw \notin {"kb_query", "examples.length"}
         /\ loc[p].kb = "threw" => loc[p].exampleCodes = <<>>

\* C12: a POST / whose completion call came back without choices, or with a
\* first choice of empty content, is not answered 200, and no record of the
\* store has an empty generatedCode.
C12_EmptyCompletionIsFailure ==
  /\ \A p \in Procs :
       Done(p, "generate") /\ loc[p].completion \in {"nochoices", "empty"}
         => Answer(p).status # 200
  /\ \A r \in generatedCode : r.generatedCode # <<>>

\* C13: a generate or regenerate whose completion call failed with a network or
\* HTTP error is answered 500 or 502, whatever status the upstream answered.
C13_UpstreamErrorIsServerError ==
  \A p \in Procs :
    /\ pc[p] = "done"
    /\ req[p].op \in {"generate", "regenerate"}
    /\ loc[p].completion = "error"
    => Answer(p).status \in {500, 502}

\* the request in slot p names a binding id that no binding of the store has,
\* so neither the direct read nor the fallback query can yield one
NoSuchBinding(p) ==
  /\ req[p].op = "generate"
  /\ ~MissingField(req[p])
  /\ variant # "minimal"
  /\ \A b \in fieldBindings : b.id # req[p].fieldBindingId

\* C14: a POST / naming a binding id that neither lookup can yield, unless the
\* fallback query itself threw, is answered 404, and at no point has a binding,
\* a knowledge query result, a downloaded example, a completion result or a
\* record to create in its locals.
C14_NoBindingIs404 ==
  \A p \in Procs :
    NoSuchBinding(p)
      => /\ pc[p] \in {"fb_read", "fb_query", "done"}
         /\ loc[p].fieldBinding = <<>>
         /\ loc[p].kb = "none" /\ loc[p].exampleCodes = <<>>
         /\ loc[p].completion = "none" /\ loc[p].record = <<>>
         /\ \A r \in generatedCode : r.fieldBindingId # req[p].fieldBindingId
         /\ pc[p] = "done" /\ loc[p].threw = "none" => Answer(p).status = 404

\* a request for the binding id 'b9', which the store does not hold, answered 404
C14_Witness ==
  \E p \in Procs :
    /\ NoSuchBinding(p)
    /\ Done(p, "generate")
    /\ req[p].fieldBindingId = "b9"
    /\ Len(resp[p]) = 1
    /\ Answer(p).status = 404

\* the stored records the (id, projectId) of the request in slot p matches
Matching(p) == {r \in generatedCode : r.id = req[p].id /\ r.projectId = req[p].projectId}

\* slot p takes a step: a request arrives in it or its handler moves on
Steps(p) == pc'[p] # pc[p] \/ req'[p] # req[p]

\* C15: no step of a GET /:id changes the store; without projectId it is
\* answered 400 on arrival, before any read; otherwise, when its read returns,
\* it is answered 404 if no stored record matches (id, projectId) and 200 with
\* the matching stored record if one does (500 if the read throws).
C15_GetById ==
  [][\A p \in Procs :
       req'[p].op = "get" /\ Steps(p)
         => /\ generatedCode' = generatedCode
            /\ req'[p].projectId = <<>>
                 => /\ pc'[p] = "done" /\ loc'[p] = NoLoc
                    /\ resp'[p] = <<Response(400)>>
            /\ pc[p] = "gc_read"
                 => /\ pc'[p] = "done"
                    /\ Len(resp'[p]) = 1
                    /\ resp'[p][1].status =
                         IF loc'[p].threw = "gc_read" THEN 500
                         ELSE IF Matching(p) = {} THEN 404 ELSE 200
                    /\ resp'[p][1].status = 200 => resp'[p][1].body[1] \in Matching(p)]_vars

\* one GET answered 200 with the stored record, another answered 404
C15_Witness ==
  \E p \in Procs, q \in Procs :
    /\ Done(p, "get") /\ Answer(p).status = 200
    /\ Answer(p).body # <<>> /\ Answer(p).body[1] \in generatedCode
    /\ Done(q, "get") /\ Answer(q).status = 404

\* C16: a POST /:id/regenerate without projectId is answered 400 on arrival,
\* and one whose (id, projectId) matches no stored record is answered 404 when
\* its read returns; in both cases the request ends there with no completion
\* result and no record to write in its locals, and the store is unchanged.
C16_RegenerateGuards ==
  [][\A p \in Procs :
       req'[p].op = "regenerate" /\ Steps(p)
         => /\ req'[p].projectId = <<>>
                 => /\ pc'[p] = "done" /\ loc'[p] = NoLoc
                    /\ resp'[p] = <<Response(400)>>
                    /\ generatedCode' = generatedCode
            /\ pc[p] = "gc_read" /\ Matching(p) = {} /\ loc'[p].threw # "gc_read"
                 => /\ pc'[p] = "done"
                    /\ resp'[p] = <<Response(404)>>
                    /\ loc'[p].completion = "none" /\ loc'[p].record = <<>>
                    /\ generatedCode' = generatedCode]_vars

\* one regenerate answered 400 for its missing projectId, another answered 404
\* for an id the store does not hold, the store still holding only the record
\* it started with
C16_Witness ==
  \E p \in Procs, q \in Procs :
    /\ Done(p, "regenerate") /\ req[p].projectId = <<>> /\ Answer(p).status = 400
    /\ Done(q, "regenerate") /\ req[q].projectId # <<>> /\ Answer(q).status = 404
    /\ loc[q].completion = "none"
    /\ generatedCode = {SeedRecord(variant)}

\* a step in which a create returns writes one fresh, well-formed record, and
\* the store gains a record in no other step
CreateStep ==
  /\ \A p \in Procs :
       pc[p] = "gc_create" /\ pc'[p] = "done" /\ loc'[p].threw = "none"
         => LET r == loc[p].record[1]
            IN /\ generatedCode' = generatedCode \cup {r}
               /\ \A x \in generatedCode : x.id # r.id
               /\ r.projectId = ExpectedProjectId(r.projectName)
               /\ r.version = <<"1",".","0",".","0">>
               /\ r.status = "generated"
  /\ Cardinality(generatedCode') # Cardinality(generatedCode)
       => \E p \in Procs : pc[p] = "gc_create" /\ pc'[p] = "done"

\* C17: the step in which a POST /'s create returns adds exactly one record to
\* the store and changes no other; the record's id is the id of no record
\* stored before, its projectId is the derivation of its projectName, its
\* version is '1.0.0' and its status 'generated'; and the store gains a record
\* in no other step.
C17_CreatePath == [][CreateStep]_vars

\* the statuses of the two-state machine
Statuses == {"generated", "regenerated"}

\* a step keeps every stored record's status inside the machine: a record
\* that appears is 'generated'; a record already stored keeps its status
\* unless the step is the replace of a regenerate answered 200, which leaves
\* it 'regenerated'; a regenerate answered otherwise changes nothing
StatusStep ==
  /\ \A n \in generatedCode' :
       LET olds == {o \in generatedCode : o.id = n.id /\ o.projectId = n.projectId}
       IN IF olds = {}
          THEN n.status = "generated"
          ELSE \A o \in olds :
                 /\ o.status \in Statuses
                 /\ \/ n.status = o.status
                    \/ /\ n.status = "regenerated"
                       /\ \E p \in Procs :
                            /\ pc[p] = "gc_replace" /\ pc'[p] = "done"
                            /\ req[p].id = n.id /\ req[p].projectId = n.projectId
                            /\ resp'[p][Len(resp'[p])].status = 200
  /\ \A p \in Procs :
       /\ pc[p] = "gc_replace" /\ pc'[p] = "done"
            => IF resp'[p][Len(resp'[p])].status = 200
               THEN \A n \in generatedCode' :
                      n.id = req[p].id /\ n.projectId = req[p].projectId
                        => n.status = "regenerated"
               ELSE generatedCode' = generatedCode
       /\ req[p].op = "regenerate" /\ pc[p] \in {"gc_read", "completion"} /\ Steps(p)
            => generatedCode' = generatedCode

\* C18: every stored record is 'generated' from its creation and 'regenerated'
\* after a regenerate answered 200; a status changes only in such a step, only
\* to 'regenerated', and a regenerate that fails changes no record.
C18_StatusMachine == [][StatusStep]_vars

\* q is a regenerate answered 200 that read the record p read and whose
\* updatedRecord is what the store holds for p's (id, projectId)
Overwrites(p, q) ==
  /\ p # q
  /\ req[p].op = "regenerate" /\ pc[p] = "gc_replace"
  /\ Done(q, "regenerate") /\ Answer(q).status = 200
  /\ req[q].id = req[p].id /\ req[q].projectId = req[p].projectId
  /\ loc[q].existingCode = loc[p].existingCode
  /\ Matching(p) = {loc[q].record[1]}

\* the replace of p returns over the record q wrote
LostUpdateStep ==
  \A p, q \in Procs :
    Overwrites(p, q) /\ pc'[p] = "done" /\ loc'[p].threw = "none"
      => LET read  == loc[p].existingCode[1]
             mine  == loc[p].record[1]
             other == loc[q].record[1]
         IN /\ resp'[p][Len(resp'[p])].status = 200
            /\ resp'[p][Len(resp'[p])].version = Answer(q).version
            /\ mine.version = other.version
            /\ generatedCode' = (generatedCode \ {other}) \cup {mine}
            /\ mine.generatedCode = loc[p].generatedCode
            /\ mine.businessLogic
                 = ModifiedBusinessLogic(read.businessLogic, req[p].modifications)
            /\ Len(mine.businessLogic) = Len(other.businessLogic)
            /\ req[p].modifications # req[q].modifications
                 => /\ mine.businessLogic # other.businessLogic
                    /\ mine.businessLogic
                         # ModifiedBusinessLogic(other.businessLogic, req[p].modifications)

\* C19: two regenerate requests of one record that both read it before either
\* replaced it are both answered 200 with the same version, and the replace
\* that returns second stores its own document whole: the generatedCode and
\* the modification text the first one stored are gone.
C19_LostUpdate == [][LostUpdateStep]_vars

\* both were answered 200 with one version after reading the same record with
\* different modifications; the store holds q's document, and neither the code
\* p generated nor p's modification text is in it
C19_Witness ==
  \E p, q \in Procs :
    /\ BothRegenerated(p, q)
    /\ loc[p].existingCode = loc[q].existingCode
    /\ loc[p].completion = "ok" /\ loc[q].completion = "ok"
    /\ req[p].modifications # req[q].modifications
    /\ Answer(p).version = Answer(q).version
    /\ Matching(q) = {loc[q].record[1]}
    /\ loc[q].record[1].generatedCode # Answer(p).generatedCode
    /\ loc[q].record[1].businessLogic
         = ModifiedBusinessLogic(loc[q].existingCode[1].businessLogic, req[q].modifications)

\* one step, as far as the fieldBinding of the stored records is concerned
SnapshotStep ==
  /\ fieldBindings' # fieldBindings => generatedCode' = generatedCode
  /\ \A r \in generatedCode :
       \E n \in generatedCode' :
         n.id = r.id /\ n.projectId = r.projectId /\ n.fieldBinding = r.fieldBinding
  /\ \A p \in Procs :
       /\ pc[p] = "gc_create" /\ pc'[p] = "done" /\ loc'[p].threw = "none"
            => \E n \in generatedCode' \ generatedCode :
                 n.fieldBinding = loc[p].fieldBinding
       /\ req'[p].op = "regenerate"
            => /\ pc'[p] \notin {"fb_read", "fb_query", "b_read"}
               /\ loc'[p].fieldBinding = <<>>
               /\ loc'[p].existingBinding = <<>>
       /\ req[p].op = "regenerate" /\ pc[p] = "completion" /\ pc'[p] = "gc_replace"
            => LET old == loc[p].existingCode[1]
               IN /\ loc'[p].record[1].fieldBinding = old.fieldBinding
                  /\ loc'[p].completion = "ok"
                       => loc'[p].generatedCode[1].fields = old.fieldBinding[1].fields

\* C20: a record's fieldBinding is the binding its generate request looked up;
\* a step that updates or deletes a binding changes no record, every stored
\* record keeps its fieldBinding through every step, and a regenerate issues no
\* binding lookup and builds its prompt from the fieldBinding of the record it
\* read.
C20_BindingSnapshot == [][SnapshotStep]_vars

\* the first request updated or deleted the binding; the second, a regenerate
\* that arrived after the first was answered, was answered 200 with code
\* generated from the fields of the snapshot, which the record still carries
C20_Witness ==
  /\ started = 2 /\ pc["r2"] = "idle"
  /\ Done("r1", "regenerate") /\ Answer("r1").status = 200
  /\ loc["r1"].completion = "ok"
  /\ Binding1 \notin fieldBindings
  /\ Answer("r1").generatedCode[1].fields = Binding1.fields
  /\ \A r \in generatedCode : r.fieldBinding = <<Binding1>>

\* bl is the original business logic followed by modification requests, each
\* under its heading
IsTrail(bl) ==
  /\ Len(bl) % 2 = 1
  /\ bl[1] = "BL"
  /\ \A i \in 2..Len(bl) :
       IF i % 2 = 0 THEN bl[i] = "ADDITIONAL MODIFICATIONS:" ELSE bl[i] \in Modifications

\* the replace of a regenerate returns without error
TrailStep ==
  /\ \A n \in generatedCode' : IsTrail(n.businessLogic)
  /\ \A p \in Procs :
       /\ req[p].op = "regenerate" /\ pc[p] = "gc_replace"
       /\ pc'[p] = "done" /\ loc'[p].threw = "none"
       => LET read   == loc[p].existingCode[1]
              before == Matching(p)
              after  == {n \in generatedCode' :
                           n.id = req[p].id /\ n.projectId = req[p].projectId}
          IN /\ \A n \in after :
                  n.businessLogic = read.businessLogic
                     \o <<"ADDITIONAL MODIFICATIONS:", req[p].modifications>>
             /\ before = {read}
                  => \A o \in before, n \in after :
                       /\ Len(n.businessLogic) = Len(o.businessLogic) + 2
                       /\ SubSeq(n.businessLogic, 1, Len(o.businessLogic)) = o.businessLogic
                       /\ n.businessLogic[Len(n.businessLogic)] = req[p].modifications

\* C21: a regenerate answered 200 stores as businessLogic the businessLogic it
\* read followed by its modification text; when no other regenerate replaced
\* the record in between, that is the stored businessLogic with the new
\* modification at its end, so the stored text always starts with the original
\* logic and carries the modifications in the order they were applied.
C21_AuditTrail == [][TrailStep]_vars

\* two regenerations, the second received after the first was answered: the
\* stored logic is the original followed by the first and then the second
\* modification
C21_Witness ==
  /\ started = 2 /\ pc["r2"] = "idle"
  /\ Done("r1", "regenerate") /\ Answer("r1").status = 200
  /\ req["r1"].modifications = "m2"
  /\ \E r \in Matching("r1") :
       r.businessLogic = <<"BL", "ADDITIONAL MODIFICATIONS:", "m1",
                           "ADDITIONAL MODIFICATIONS:", "m2">>

\* C22: a generate or regenerate request sends at most one request to the
\* completion service, and when that request fails the handler answers with
\* the failure at once: no second request, no write, no 200.
C22_SingleCompletionCall ==
  \A p \in Procs :
    req[p].op \in {"generate", "regenerate"}
      => /\ loc[p].attempts <= 1
         /\ loc[p].completion # "none" => loc[p].attempts = 1
         /\ loc[p].completion = "error"
              => /\ pc[p] = "done"
                 /\ Answer(p).status # 200
                 /\ loc[p].record = <<>>

\* the file names of the first three entries of the knowledge query's result
TopThreeNames(abt) ==
  LET found == KnowledgeQuery(knowledgeBase, abt)
  IN {found[j].fileName : j \in {k \in DOMAIN found : k <= 3}}

\* C23: a generate request downloads only entries among the first three of
\* the newest-first query result and passes at most three examples to the
\* prompt; answered 200, its usedExamples is the number of downloads that
\* succeeded and the length of the examples list of the record it stored.
C23_TopThreeExamples ==
  \A p \in Procs :
    req[p].op = "generate"
      => /\ Len(loc[p].exampleCodes) <= 3
         /\ \A i \in DOMAIN loc[p].exampleCodes :
              loc[p].exampleCodes[i].fileName \in TopThreeNames(req[p].actionButtonType)
         /\ pc[p] = "download"
              => /\ loc[p].idx <= 3
                 /\ loc[p].examples[loc[p].idx].fileName
                      \in TopThreeNames(req[p].actionButtonType)
         /\ loc[p].completion = "ok"
              => Len(loc[p].generatedCode[1].examples) = Len(loc[p].exampleCodes)
         /\ pc[p] = "done" /\ Answer(p).status = 200
              => /\ Answer(p).usedExamples = Len(loc[p].exampleCodes)
                 /\ \E r \in generatedCode :
                      r.id = Answer(p).codeId /\ Len(r.examples) = Answer(p).usedExamples

\* no request is in flight
Quiescent == \A p \in Procs : pc[p] \in {"idle", "done"}

\* every knowledge document has its blob and every blob its document
NoOrphan ==
  /\ \A i \in DOMAIN knowledgeBase : knowledgeBase[i].filePath \in blobs
  /\ \A b \in blobs : \E i \in DOMAIN knowledgeBase : knowledgeBase[i].filePath = b

\* C24: whenever no upload or delete is in flight, whatever storage calls
\* failed in the requests answered so far, every knowledge document has a blob
\* at its filePath and every blob has a knowledge document.
C24_NoOrphans == Quiescent => NoOrphan

\* the ids of the stored bindings
BindingIds(store) == {b.id : b \in store}

\* the replace of a PUT returns without error
BindingIdStep ==
  \A p \in Procs :
    /\ req[p].op = "putBinding" /\ pc[p] = "b_replace"
    /\ pc'[p] = "done" /\ loc'[p].threw = "none"
    => /\ BindingIds(fieldBindings') = BindingIds(fieldBindings)
       /\ \E b \in fieldBindings' :
            /\ b.id = req[p].fieldBindingId
            /\ b.id = loc[p].existingBinding[1].id

\* C25: after a PUT of a binding answered 200, whatever its body, the store
\* holds the binding under the id it had before; the ids of the stored
\* bindings are the same before and after the update.
C25_BindingIdImmutable == [][BindingIdStep]_vars

\* C26: the server listens only when every required variable was found
\* present and Azure initialization succeeded; when a required variable is
\* missing the server never listens, and a process that has exited without
\* listening has exited with a non-zero status.
C26_StartupFailsFast ==
  /\ boot.phase = "listening"
       => MissingVars(boot.env) = {} /\ boot.azure = "ok"
  /\ boot.phase = "exited" => boot.exitCode # 0
  /\ boot.azure = "failed" => boot.phase = "exited"

\* every field has a non-empty name that no other field of the list has, a
\* known dataType and a known classification, and the list has a dimension
\* and a measure
WellFormed(fields) ==
  /\ \A i \in DOMAIN fields :
       /\ fields[i].name # ""
       /\ \A j \in DOMAIN fields : j # i => fields[j].name # fields[i].name
       /\ fields[i].dataType \in {"string", "number", "boolean", "date", "array"}
       /\ fields[i].classification \in {"dimension", "measure", "parameter"}
  /\ \E i \in DOMAIN fields : fields[i].classification = "dimension"
  /\ \E i \in DOMAIN fields : fields[i].classification = "measure"

CodeRoutes == {"generate", "get", "regenerate", "download"}

\* C28: a request to generate, get-by-id, regenerate or download whose handler
\* has returned has been sent exactly one response, and a request whose
\* handler is suspended at a call has been sent none yet.
C28_ExactlyOneResponse ==
  \A p \in Procs :
    req[p].op \in CodeRoutes
      => /\ pc[p] = "done" => Len(resp[p]) = 1
         /\ pc[p] # "done" => resp[p] = <<>>

\* two requests answered on different paths: one with 200, the other by the
\* catch block after a call threw
C28_Witness ==
  \E p, q \in Procs :
    /\ pc[p] = "done" /\ pc[q] = "done"
    /\ req[p].op \in CodeRoutes /\ req[q].op \in CodeRoutes
    /\ Answer(p).status = 200 /\ Len(resp[p]) = 1
    /\ loc[q].threw # "none" /\ Answer(q).status = 500 /\ Len(resp[q]) = 1

----------------------------------------------------------------------------
(* C29 *)

\* the patch component of a version 'M.m.p'
PatchOf(version) == DigitsValue(SplitDots(version)[3])

\* the records of the store that were created with a version
Versioned(store) == {r \in store : r.version # Undefined}

\* the stored versions of the store: 'M.m.p' with the major and minor of the
\* first version, and a patch between 1 and the number k of regenerate
\* requests answered 200 on the record (0 when there was none)
VersionsWithin(store, count) ==
  \A r \in Versioned(store) :
    /\ IsVersion(r.version)
    /\ MajorMinor(r.version) = MajorMinor(FirstVersion)
    /\ LET k == Regenerated(count, r.id)
           patch == PatchOf(r.version)
       IN IF k = 0 THEN patch = 0 ELSE 1 <= patch /\ patch <= k

\* the replace of p returns with 200 over the record old, the one p had read
Replaces(p, old) ==
  /\ pc[p] = "gc_replace" /\ pc'[p] = "done"
  /\ resp'[p][Len(resp'[p])].status = 200
  /\ old \in generatedCode
  /\ loc[p].existingCode = <<old>>

\* one step over the versions of the store
VersionStep ==
  /\ VersionsWithin(generatedCode', regenerated')
  /\ \A old \in Versioned(generatedCode), new \in Versioned(generatedCode') :
       old.id = new.id /\ old.projectId = new.projectId
         => PatchOf(new.version) >= PatchOf(old.version)
  /\ \A p \in Procs, old \in generatedCode :
       Replaces(p, old) /\ PatchOf(old.version) = Regenerated(regenerated, old.id)
         => \E new \in generatedCode' :
              /\ new.id = old.id
              /\ PatchOf(new.version) = Regenerated(regenerated', old.id)

\* C29: a record created at version '1.0.0' on which k regenerate requests
\* have returned 200 stores version '1.0.p' with 1 <= p <= k (p = 0 for
\* k = 0): major and minor never change, no step lowers the stored patch, and
\* a 200 regenerate that replaces the very record it read, on a record whose
\* patch equals its count, leaves the patch equal to the count, so that p
\* falls behind k only through regenerations that overlapped.
C29_VersionCount == [][VersionStep]_vars

\* three regenerations of the seeded record have been answered 200 and the
\* store holds version '1.0.1'
C29_Stale ==
  \E r \in generatedCode :
    /\ Regenerated(regenerated, r.id) = 3
    /\ r.version = <<"1",".","0",".","1">>

----------------------------------------------------------------------------
(* C30 *)

\* the request in slot p is answered 200 in this step
Answered200(p, op) ==
  /\ req'[p].op = op /\ Steps(p)
  /\ pc'[p] = "done"
  /\ resp'[p][Len(resp'[p])].status = 200

\* what the 200 answer of p says and what the step stored
AgreementStep ==
  \A p \in Procs :
    LET answer == resp'[p][Len(resp'[p])]
    IN /\ Answered200(p, "generate")
            => \E r \in generatedCode' \ generatedCode :
                 /\ loc[p].record = <<r>>
                 /\ answer.codeId = r.id
                 /\ answer.generatedCode = r.generatedCode
       /\ Answered200(p, "regenerate")
            => \E r \in generatedCode' :
                 /\ loc[p].record = <<r>>
                 /\ r.id = req[p].id /\ r.projectId = req[p].projectId
                 /\ answer.codeId = r.id
                 /\ answer.version = r.version
                 /\ answer.generatedCode = r.generatedCode

\* C30: in the step that answers a generate request with 200 the store gains
\* the record the request built, and the answer's codeId and generatedCode
\* are that record's id and generatedCode; in the step that answers a
\* regenerate request with 200 the store holds the record the request's
\* replace wrote, and the answer's codeId, version and generatedCode are
\* that record's.
C30_ResponseAgrees == [][AgreementStep]_vars

====
